---- MODULE Spec2Model ----
(***************************************************************************)
(* A model of github.com/rothskeller/json:                                 *)
(*   - the Writer of jwriter.go (SpecW),                                   *)
(*   - the function-style decoder Parse (SpecP),                           *)
(*   - the method-style decoder Reader.Read (SpecR).                       *)
(* Bytes and runes are integers; strings are sequences of them.            *)
(***************************************************************************)
EXTENDS Integers, Sequences, FiniteSets, TLC

(***************************************************************************)
(* Bounds of the model.                                                    *)
(***************************************************************************)
\* the number of Writer method calls a caller makes
MaxCalls == 4
\* the number of values (primitives, arrays, objects) in a document read
MaxNodes == 4

(***************************************************************************)
(* Byte helpers.                                                           *)
(***************************************************************************)
\* s[from:to] of Go, 0-based, half open
Slice(s, from, to) == SubSeq(s, from + 1, to)

Last(s) == s[Len(s)]

Digit(d) == 48 + d

RECURSIVE DecDigits(_)
\* the decimal digits of a natural number
DecDigits(n) == IF n < 10 THEN <<Digit(n)>> ELSE DecDigits(n \div 10) \o <<Digit(n % 10)>>

(***************************************************************************)
(* jwriter.go: the byte constants.                                         *)
(***************************************************************************)
openBrace == 123
closeBrace == 125
comma == 44
colon == 58
openBracket == 91
closeBracket == 93
dquote == 34
backslash == 92
escapedNL == <<92, 110>>
escapedCR == <<92, 114>>
escapedTab == <<92, 116>>
escapedUnicode == <<92, 117, 48, 48>>
badUnicode == <<92, 117, 102, 102, 102, 100>>
null == <<110, 117, 108, 108>>
hex == <<48, 49, 50, 51, 52, 53, 54, 55, 56, 57, 97, 98, 99, 100, 101, 102>>
\* utf8.RuneSelf and utf8.RuneError
RuneSelf == 128
RuneError == 65533

\* a safeSet that leaves out 0x7f
safeSetPrintable(b) == b >= 32 /\ b < 127 /\ b # 34 /\ b # 92

\* safeSet[b]: every ASCII byte from ' ' to 0x7f but '"' and '\\'
safeSet(b) == b >= 32 /\ b < RuneSelf /\ b # 34 /\ b # 92

(***************************************************************************)
(* utf8.DecodeRuneInString, as writer.String uses it: the rune and the     *)
(* number of bytes it takes; (RuneError, 1) for an invalid encoding.       *)
(***************************************************************************)
IsCont(s, k, lo, hi) == Len(s) >= k /\ s[k] >= lo /\ s[k] <= hi

DecodeRuneInString(s) ==
  LET p0 == s[1]
      bad == [c |-> RuneError, size |-> 1]
      lo2 == CASE p0 = 224 -> 160 [] p0 = 240 -> 144 [] OTHER -> 128
      hi2 == CASE p0 = 237 -> 159 [] p0 = 244 -> 143 [] OTHER -> 191
  IN  IF p0 < RuneSelf THEN [c |-> p0, size |-> 1]
      ELSE IF p0 >= 194 /\ p0 <= 223
        THEN IF IsCont(s, 2, 128, 191)
               THEN [c |-> (p0 % 32) * 64 + (s[2] % 64), size |-> 2]
               ELSE bad
      ELSE IF p0 >= 224 /\ p0 <= 239
        THEN IF IsCont(s, 2, lo2, hi2) /\ IsCont(s, 3, 128, 191)
               THEN [c |-> (p0 % 16) * 4096 + (s[2] % 64) * 64 + (s[3] % 64), size |-> 3]
               ELSE bad
      ELSE IF p0 >= 240 /\ p0 <= 244
        THEN IF IsCont(s, 2, lo2, hi2) /\ IsCont(s, 3, 128, 191) /\ IsCont(s, 4, 128, 191)
               THEN [c |-> (p0 % 8) * 262144 + (s[2] % 64) * 4096 + (s[3] % 64) * 64 + (s[4] % 64),
                     size |-> 4]
               ELSE bad
      ELSE bad

(***************************************************************************)
(* The writer struct and the goroutine's panic.  A writer state is         *)
(*   [w, comma, inObject, panic]: w the bytes written to jw.w, panic the   *)
(* message of the panic the call raised ("" while there is none).          *)
(***************************************************************************)
NoPanic == ""

Panic(st, msg) == [st EXCEPT !.panic = msg]

WriteByte(st, b) == [st EXCEPT !.w = @ \o <<b>>]

WriteString(st, s) == [st EXCEPT !.w = @ \o s]

\* "if jw.comma { jw.w.WriteByte(comma) }"
WriteComma(st) == IF st.comma THEN WriteByte(st, comma) ELSE st

\* fmt.Fprintf(jw.w, "%d", i)
FormatInt(i) == IF i < 0 THEN <<45>> \o DecDigits(0 - i) ELSE DecDigits(i)

\* A float64 is [k, neg, micro]: k is "fin" for the finite value
\* (-1)^neg * micro / 10^6, or "nan" or "inf".
Pad6(n) == [k \in 1..6 |-> Digit((n \div (10 ^ (6 - k))) % 10)]

\* fmt.Fprintf(jw.w, "%f", f)
FormatFloat(f) ==
  CASE f.k = "nan" -> <<78, 97, 78>>
    [] f.k = "inf" -> (IF f.neg THEN <<45>> ELSE <<43>>) \o <<73, 110, 102>>
    [] OTHER -> (IF f.neg THEN <<45>> ELSE <<>>) \o DecDigits(f.micro \div 1000000)
                  \o <<46>> \o Pad6(f.micro % 1000000)

ObjectPanic == "Object can only contain Prop"

\* writer.Null without its check of inObject
NullUnchecked(st) == WriteString([WriteComma(st) EXCEPT !.comma = TRUE], null)

\* writer.Null
Null(st) ==
  IF st.inObject THEN Panic(st, ObjectPanic)
  ELSE WriteString([WriteComma(st) EXCEPT !.comma = TRUE], null)

\* writer.Int
Int_(st, i) ==
  IF st.inObject THEN Panic(st, ObjectPanic)
  ELSE WriteString([WriteComma(st) EXCEPT !.comma = TRUE], FormatInt(i))

\* writer.Float64
Float64(st, f) ==
  IF st.inObject THEN Panic(st, ObjectPanic)
  ELSE WriteString([WriteComma(st) EXCEPT !.comma = TRUE], FormatFloat(f))

\* writer.Bool
Bool(st, b) ==
  IF st.inObject THEN Panic(st, ObjectPanic)
  ELSE WriteString([WriteComma(st) EXCEPT !.comma = TRUE],
                   IF b THEN <<116, 114, 117, 101>> ELSE <<102, 97, 108, 115, 101>>)

\* writer.Raw with jw.comma set as a value sets it
RawAsValue(st, s) == [WriteString(st, s) EXCEPT !.comma = TRUE]

\* writer.Raw
Raw(st, s) == [WriteString(st, s) EXCEPT !.comma = FALSE]

\* writer.RawByte
RawByte(st, b) == [WriteByte(st, b) EXCEPT !.comma = FALSE]

\* the escape of one ASCII byte that is not in safeSet (the switch of String)
EscapeByte(b) ==
  CASE b = 92 \/ b = 34 -> <<backslash, b>>
    [] b = 10 -> escapedNL
    [] b = 13 -> escapedCR
    [] b = 9 -> escapedTab
    [] OTHER -> escapedUnicode \o <<hex[(b \div 16) + 1], hex[(b % 16) + 1]>>

RECURSIVE StringLoop(_, _, _, _)
\* the loop of writer.String: i and start as in the code, w the bytes written
StringLoop(s, i, start, w) ==
  IF i >= Len(s)
    THEN IF start < Len(s) THEN w \o Slice(s, start, Len(s)) ELSE w
    ELSE LET b == s[i + 1]
             flushed == IF start < i THEN w \o Slice(s, start, i) ELSE w
             d == DecodeRuneInString(Slice(s, i, Len(s)))
         IN  IF b < RuneSelf
               THEN IF safeSet(b)
                      THEN StringLoop(s, i + 1, start, w)
                      ELSE StringLoop(s, i + 1, i + 1, flushed \o EscapeByte(b))
               ELSE IF d.c = RuneError /\ d.size = 1
                      THEN StringLoop(s, i + d.size, i + d.size, flushed \o badUnicode)
                      ELSE StringLoop(s, i + d.size, start, w)

\* writer.String
String_(st, s) ==
  IF st.inObject THEN Panic(st, ObjectPanic)
  ELSE LET s1 == WriteByte([WriteComma(st) EXCEPT !.comma = TRUE], dquote)
       IN  WriteByte([s1 EXCEPT !.w = StringLoop(s, 0, 0, s1.w)], dquote)

\* writer.Object up to the call of f
ObjectEnter(st) ==
  IF st.inObject THEN Panic(st, ObjectPanic)
  ELSE WriteByte([WriteComma(st) EXCEPT !.comma = FALSE, !.inObject = TRUE], openBrace)

\* writer.Object after f has returned, without its jw.comma = true
ObjectExitNoComma(st, saveInObject) ==
  [WriteByte(st, closeBrace) EXCEPT !.inObject = saveInObject]

\* writer.Object after f has returned
ObjectExit(st, saveInObject) ==
  [WriteByte(st, closeBrace) EXCEPT !.comma = TRUE, !.inObject = saveInObject]

\* writer.Array up to the call of f
ArrayEnter(st) ==
  IF st.inObject THEN Panic(st, ObjectPanic)
  ELSE WriteByte([WriteComma(st) EXCEPT !.comma = FALSE], openBracket)

\* writer.Array after f has returned
ArrayExit(st) == [WriteByte(st, closeBracket) EXCEPT !.comma = TRUE]

\* writer.Prop up to the switch, without its check of inObject
PropEnterUnchecked(st, name) ==
  [WriteByte(String_([st EXCEPT !.inObject = FALSE], name), colon) EXCEPT !.comma = FALSE]

\* writer.Prop up to the switch on the value's type
PropEnter(st, name) ==
  IF ~st.inObject THEN Panic(st, "Prop can only occur within Object")
  ELSE [WriteByte(String_([st EXCEPT !.inObject = FALSE], name), colon) EXCEPT !.comma = FALSE]

\* writer.Prop after the switch, without its jw.inObject = true
PropExitNoRestore(st, fn) ==
  IF fn /\ ~st.comma THEN Panic(st, "Prop value function did not write anything")
  ELSE [st EXCEPT !.comma = TRUE]

\* writer.Prop after the switch: the value function has returned (fn), or a
\* primitive was written
PropExit(st, fn) ==
  IF fn /\ ~st.comma THEN Panic(st, "Prop value function did not write anything")
  ELSE [st EXCEPT !.comma = TRUE, !.inObject = TRUE]

\* writer.Prop with a value that is no function; v is [t, s, i, b, f], t the
\* dynamic type of the interface value
Prop(st, name, v) ==
  LET s1 == PropEnter(st, name)
  IN  IF s1.panic # NoPanic THEN s1
      ELSE CASE v.t = "nil" -> PropExit(Null(s1), FALSE)
             [] v.t = "string" -> PropExit(String_(s1, v.s), FALSE)
             [] v.t = "int" -> PropExit(Int_(s1, v.i), FALSE)
             [] v.t = "bool" -> PropExit(Bool(s1, v.b), FALSE)
             [] v.t = "float64" -> PropExit(Float64(s1, v.f), FALSE)
             [] OTHER -> Panic(s1, "unknown Prop value type")

(***************************************************************************)
(* The JSON grammar of RFC 8259, as a recognizer over bytes: the reference *)
(* the output of the Writer and the input of the decoders are held to.     *)
(* Each ...End(s, i) is the index after the item that starts at s[i], or 0 *)
(* when there is none.                                                     *)
(***************************************************************************)
At(s, i) == IF i >= 1 /\ i <= Len(s) THEN s[i] ELSE -1

IsWs(c) == c \in {32, 9, 10, 13}

IsDigit(c) == c >= 48 /\ c <= 57

IsHexDigit(c) == IsDigit(c) \/ (c >= 97 /\ c <= 102) \/ (c >= 65 /\ c <= 70)

RECURSIVE SkipWs(_, _)
SkipWs(s, i) == IF IsWs(At(s, i)) THEN SkipWs(s, i + 1) ELSE i

RECURSIVE DigitsEnd(_, _)
DigitsEnd(s, i) == IF IsDigit(At(s, i)) THEN DigitsEnd(s, i + 1) ELSE i

NumberEnd(s, i) ==
  LET a == IF At(s, i) = 45 THEN i + 1 ELSE i
      b == IF At(s, a) = 48 THEN a + 1
           ELSE IF IsDigit(At(s, a)) THEN DigitsEnd(s, a) ELSE 0
      c == IF b = 0 THEN 0
           ELSE IF At(s, b) = 46
                  THEN IF IsDigit(At(s, b + 1)) THEN DigitsEnd(s, b + 1) ELSE 0
                  ELSE b
      e1 == IF At(s, c + 1) \in {43, 45} THEN c + 2 ELSE c + 1
  IN  IF c = 0 THEN 0
      ELSE IF At(s, c) \in {101, 69}
             THEN IF IsDigit(At(s, e1)) THEN DigitsEnd(s, e1) ELSE 0
             ELSE c

RECURSIVE CharsEnd(_, _)
\* the rest of a string, from inside it to after its closing quote
CharsEnd(s, i) ==
  LET c == At(s, i)
      e == At(s, i + 1)
  IN  IF c = 34 THEN i + 1
      ELSE IF c < 32 THEN 0
      ELSE IF c # 92 THEN CharsEnd(s, i + 1)
      ELSE IF e \in {34, 92, 47, 98, 102, 110, 114, 116} THEN CharsEnd(s, i + 2)
      ELSE IF e = 117 /\ \A k \in 2..5 : IsHexDigit(At(s, i + k)) THEN CharsEnd(s, i + 6)
      ELSE 0

StringEnd(s, i) == IF At(s, i) = 34 THEN CharsEnd(s, i + 1) ELSE 0

LiteralEnd(s, i, lit) ==
  IF \A k \in 1..Len(lit) : At(s, i + k - 1) = lit[k] THEN i + Len(lit) ELSE 0

RECURSIVE ValueEnd(_, _)
RECURSIVE ElementsEnd(_, _)
RECURSIVE MembersEnd(_, _)
ValueEnd(s, i) ==
  LET c == At(s, i)
      j == SkipWs(s, i + 1)
  IN  CASE c = 123 -> IF At(s, j) = 125 THEN j + 1 ELSE MembersEnd(s, j)
        [] c = 91 -> IF At(s, j) = 93 THEN j + 1 ELSE ElementsEnd(s, j)
        [] c = 34 -> StringEnd(s, i)
        [] c = 45 \/ IsDigit(c) -> NumberEnd(s, i)
        [] c = 116 -> LiteralEnd(s, i, <<116, 114, 117, 101>>)
        [] c = 102 -> LiteralEnd(s, i, <<102, 97, 108, 115, 101>>)
        [] c = 110 -> LiteralEnd(s, i, <<110, 117, 108, 108>>)
        [] OTHER -> 0

\* the elements of an array from s[i], to after its closing bracket
ElementsEnd(s, i) ==
  LET v == ValueEnd(s, i)
      j == SkipWs(s, v)
  IN  IF v = 0 THEN 0
      ELSE IF At(s, j) = 44 THEN ElementsEnd(s, SkipWs(s, j + 1))
      ELSE IF At(s, j) = 93 THEN j + 1
      ELSE 0

\* the members of an object from s[i], to after its closing brace
MembersEnd(s, i) ==
  LET k == StringEnd(s, i)
      c == SkipWs(s, k)
      v == ValueEnd(s, SkipWs(s, c + 1))
      j == SkipWs(s, v)
  IN  IF k = 0 \/ At(s, c) # 58 \/ v = 0 THEN 0
      ELSE IF At(s, j) = 44 THEN MembersEnd(s, SkipWs(s, j + 1))
      ELSE IF At(s, j) = 125 THEN j + 1
      ELSE 0

\* s is one JSON text: a value with optional whitespace around it
IsJSON(s) ==
  LET e == ValueEnd(s, SkipWs(s, 1))
  IN  e # 0 /\ SkipWs(s, e) = Len(s) + 1

(***************************************************************************)
(* What the decoders read with: bufio.Reader over the input bytes, the     *)
(* whole input being in its buffer.  pos counts the bytes consumed.        *)
(***************************************************************************)
\* io.EOF
EOF == "EOF"

\* bufio.Reader.ReadRune: the rune (-1 at the end of the input) and its size;
\* an invalid encoding reads as utf8.RuneError of size 1
ReadRune(in, pos) ==
  IF pos >= Len(in) THEN [c |-> -1, size |-> 0]
  ELSE DecodeRuneInString(Slice(in, pos, Len(in)))

\* the bytes of in from pos that lie in set, up to the first that does not
RECURSIVE Run(_, _, _)
Run(in, pos, set) ==
  IF pos < Len(in) /\ in[pos + 1] \in set THEN <<in[pos + 1]>> \o Run(in, pos + 1, set) ELSE <<>>

\* "0123456789-+eE."
NumberBytes == (48..57) \cup {45, 43, 101, 69, 46}

\* "aeflnrstu"
KeywordBytes == {97, 101, 102, 108, 110, 114, 115, 116, 117}

RECURSIVE DecValue(_)
\* the number a sequence of decimal digits denotes
DecValue(ds) == IF ds = <<>> THEN 0 ELSE DecValue(SubSeq(ds, 1, Len(ds) - 1)) * 10 + (Last(ds) - 48)

AllDigits(ds) == \A k \in 1..Len(ds) : IsDigit(ds[k])

\* tok without a leading sign
Unsigned(tok) == IF tok # <<>> /\ tok[1] \in {43, 45} THEN Tail(tok) ELSE tok

Negative(tok) == tok # <<>> /\ tok[1] = 45

\* strconv.Atoi succeeds: an optional sign and one digit or more (the tokens
\* of the model are too short to leave the range of int)
AtoiOK(tok) == Unsigned(tok) # <<>> /\ AllDigits(Unsigned(tok))

\* strconv.Atoi
Atoi(tok) == IF Negative(tok) THEN 0 - DecValue(Unsigned(tok)) ELSE DecValue(Unsigned(tok))

\* the parts of a decimal floating-point token: the digits before and after
\* the point, and the exponent part after e or E (<<>> when there is none)
FloatParts(tok) ==
  LET u == Unsigned(tok)
      ip == Run(u, 0, 48..57)
      r1 == Slice(u, Len(ip), Len(u))
      dot == r1 # <<>> /\ r1[1] = 46
      fp == IF dot THEN Run(r1, 1, 48..57) ELSE <<>>
      r2 == IF dot THEN Slice(r1, 1 + Len(fp), Len(r1)) ELSE r1
      hasE == r2 # <<>> /\ r2[1] \in {101, 69}
  IN  [ip |-> ip, fp |-> fp, hasE |-> hasE, ex |-> IF hasE THEN Tail(r2) ELSE <<>>,
       rest |-> IF hasE THEN <<>> ELSE r2]

\* strconv.ParseFloat(tok, 64) succeeds: [+-]digits[.digits][e[+-]digits]
\* with a digit in the mantissa (hexadecimal, infinities, NaN and underscores
\* need bytes a number token cannot hold; range errors need longer tokens)
ParseFloatOK(tok) ==
  LET p == FloatParts(tok)
  IN  /\ Len(p.ip) + Len(p.fp) > 0
      /\ p.rest = <<>>
      /\ p.hasE => (Unsigned(p.ex) # <<>> /\ AllDigits(Unsigned(p.ex)))

RECURSIVE Normal(_, _)
\* a decimal m * 10^e with no trailing zero in m
Normal(m, e) == IF m = 0 THEN <<0, 0>> ELSE IF m % 10 = 0 THEN Normal(m \div 10, e + 1) ELSE <<m, e>>

\* strconv.ParseFloat: the value, as <<m, e>> for m * 10^e
ParseFloat(tok) ==
  LET p == FloatParts(tok)
      m == DecValue(p.ip \o p.fp)
      e == (IF p.hasE THEN Atoi(p.ex) ELSE 0) - Len(p.fp)
  IN  Normal(IF Negative(tok) THEN 0 - m ELSE m, e)

\* an int as a float64
IntAsFloat(i) == Normal(i, 0)

(***************************************************************************)
(* time.Parse(time.RFC3339, s) for the layout 2006-01-02T15:04:05Z07:00:   *)
(* a 4-digit year, 2-digit month and day, T, the hour, 2-digit minute and  *)
(* second, and Z or a numeric zone.  The strings of the model hold no      *)
(* fractional second and no one-digit hour.                                *)
(***************************************************************************)
Num2(s, k) == (s[k] - 48) * 10 + (s[k + 1] - 48)

DaysIn(y, m) ==
  CASE m \in {4, 6, 9, 11} -> 30
    [] m = 2 -> IF y % 4 = 0 /\ (y % 100 # 0 \/ y % 400 = 0) THEN 29 ELSE 28
    [] OTHER -> 31

TimeShapeOK(s) ==
  /\ Len(s) \in {20, 25}
  /\ \A k \in {1, 2, 3, 4, 6, 7, 9, 10, 12, 13, 15, 16, 18, 19} : IsDigit(s[k])
  /\ s[5] = 45 /\ s[8] = 45 /\ s[11] = 84 /\ s[14] = 58 /\ s[17] = 58
  /\ IF Len(s) = 20 THEN s[20] = 90
     ELSE /\ s[20] \in {43, 45}
          /\ \A k \in {21, 22, 24, 25} : IsDigit(s[k])
          /\ s[23] = 58

ParseTimeOK(s) ==
  /\ TimeShapeOK(s)
  /\ Num2(s, 6) \in 1..12
  /\ Num2(s, 9) \in 1..DaysIn(Num2(s, 1) * 100 + Num2(s, 3), Num2(s, 6))
  /\ Num2(s, 12) < 24 /\ Num2(s, 15) < 60 /\ Num2(s, 18) < 60
  /\ Len(s) = 25 => (Num2(s, 21) < 24 /\ Num2(s, 24) < 60)

\* the time.Time: <<year, month, day, hour, minute, second, zone in minutes>>
ParseTime(s) ==
  <<Num2(s, 1) * 100 + Num2(s, 3), Num2(s, 6), Num2(s, 9), Num2(s, 12), Num2(s, 15),
    Num2(s, 18),
    IF Len(s) = 20 THEN 0
    ELSE (IF s[20] = 45 THEN -1 ELSE 1) * (Num2(s, 21) * 60 + Num2(s, 24))>>

(***************************************************************************)
(* strings.Builder.WriteRune: a rune that is no Unicode scalar value is    *)
(* written as utf8.RuneError.                                              *)
(***************************************************************************)
MaxRune == 1114111

WriteRune(sb, r) ==
  Append(sb, IF r < 0 \/ r > MaxRune \/ (r >= 55296 /\ r <= 57343) THEN RuneError ELSE r)

HexValue(c) == IF IsDigit(c) THEN c - 48 ELSE IF c >= 97 THEN c - 87 ELSE c - 55

\* strconv.ParseInt(u, 16, 32) succeeds: an optional sign, then one
\* hexadecimal digit or more
ParseHexOK(u) ==
  Unsigned(u) # <<>> /\ \A k \in 1..Len(Unsigned(u)) : IsHexDigit(Unsigned(u)[k])

RECURSIVE HexDigitsValue(_)
HexDigitsValue(ds) ==
  IF ds = <<>> THEN 0
  ELSE HexDigitsValue(SubSeq(ds, 1, Len(ds) - 1)) * 16 + HexValue(Last(ds))

\* strconv.ParseInt(u, 16, 32)
ParseHex(u) ==
  IF Negative(u) THEN 0 - HexDigitsValue(Unsigned(u)) ELSE HexDigitsValue(Unsigned(u))

\* what a round of the loop of parseString leaves: the loop goes on (more)
\* or returns (fail, with err "" at the closing quote); s is the
\* strings.Builder and pos the position of the reader
ScanMore(s, at) == [err |-> "", s |-> s, pos |-> at, done |-> FALSE]

ScanFail(msg, sb, at) == [err |-> msg, s |-> sb, pos |-> at, done |-> TRUE]

\* the switch on the rune e read after a backslash, the reader at p2
ScanEscape(in, p2, sb, e) ==
  LET n == IF Len(in) - p2 < 4 THEN Len(in) - p2 ELSE 4
      u == Slice(in, p2, p2 + n)
  IN  IF e.c = -1 THEN ScanFail(EOF, sb, p2)
      ELSE IF e.c \in {34, 92, 47} THEN ScanMore(WriteRune(sb, e.c), p2)
      ELSE IF e.c = 98 THEN ScanMore(Append(sb, 8), p2)
      ELSE IF e.c = 102 THEN ScanMore(Append(sb, 12), p2)
      ELSE IF e.c = 110 THEN ScanMore(Append(sb, 10), p2)
      ELSE IF e.c = 114 THEN ScanMore(Append(sb, 13), p2)
      ELSE IF e.c = 116 THEN ScanMore(Append(sb, 9), p2)
      ELSE IF e.c = 117
        THEN IF n = 0 THEN ScanFail(EOF, sb, p2)
             ELSE IF n # 4 THEN ScanFail("invalid Unicode escape in JSON string", sb, p2 + n)
             ELSE IF ~ParseHexOK(u) THEN ScanFail("invalid Unicode escape in JSON string", sb, p2 + n)
             ELSE ScanMore(WriteRune(sb, ParseHex(u)), p2 + n)
      ELSE ScanFail("unexpected escape sequence in JSON string", sb, p2)

\* the rune e has been read after a backslash that ends at p1
ScanAfter(in, p1, sb, e) == ScanEscape(in, p1 + e.size, sb, e)

\* the switch on the rune d read at pos
ScanRune(in, pos, sb, d) ==
  IF d.c = -1 THEN ScanFail(EOF, sb, pos + d.size)
  ELSE IF d.c = 34 THEN ScanFail("", sb, pos + d.size)
  ELSE IF d.c < 32 THEN ScanFail("unexpected control character in JSON string", sb, pos + d.size)
  ELSE IF d.c # 92 THEN ScanMore(WriteRune(sb, d.c), pos + d.size)
  ELSE ScanAfter(in, pos + d.size, sb, ReadRune(in, pos + d.size))

\* one round of the loop of parseString at pos
ScanStep(in, pos, sb) == ScanRune(in, pos, sb, ReadRune(in, pos))

RECURSIVE ScanString(_, _, _)
\* the loop goes on from what a round of it left
ScanNext(in, r) ==
  IF r.done THEN [err |-> r.err, s |-> r.s, pos |-> r.pos] ELSE ScanString(in, r.pos, r.s)

\* the loop of parseString, from after the opening quote: [err, s, pos], err
\* "" when the closing quote was read
ScanString(in, pos, sb) == ScanNext(in, ScanStep(in, pos, sb))

(***************************************************************************)
(* The state.                                                              *)
(*   jw        the writer struct and the panic of the goroutine using it   *)
(*   stack     the closures that are running: main, and the function of    *)
(*             each Object, Array and Prop call that has not returned; n   *)
(*             counts the value and Prop calls the closure has made        *)
(*   ncalls    the Writer method calls made so far                         *)
(*   lastCall  the method called last                                      *)
(*   closed    Close has been called                                       *)
(*   want      the JSON text of the calls made so far (history)            *)
(*   legal     the calls made so far respect the Writer's contract         *)
(***************************************************************************)
VARIABLES jw, stack, ncalls, lastCall, closed, want, legal, gjw

\* The writers in use, each with the io.Writer its bufio.Writer writes to
\* (wr), the writers that writerPool holds, and what each io.Writer has
\* received.
VARIABLES writers, writerPool, sinks

lvars == <<writers, writerPool, sinks>>

wvars == <<jw, stack, ncalls, lastCall, closed, want, legal, gjw, lvars>>

\* the gzipWriter around the writer: pc the statement of its Close that runs
\* next (0 when there is no gzipWriter), gwIn the bytes the gzip.Writer has
\* been given, gwOut what it has written to the bufio.Writer of the sink,
\* bwOut what that has written to the sink, gwClosed that the gzip.Writer
\* is closed, and pools the resources that have been put back
GZip(pc, gwIn, gwOut, bwOut, gwClosed, pools) ==
  [pc |-> pc, gwIn |-> gwIn, gwOut |-> gwOut, bwOut |-> bwOut, gwClosed |-> gwClosed,
   pools |-> pools]

NoGZip == GZip(0, <<>>, <<>>, <<>>, FALSE, {})

\* the io.Writers a caller passes to NewWriter
Sinks == {"w1", "w2"}

\* no writer has been made, writerPool is empty, nothing has been received
NoPool ==
  /\ writers = <<>>
  /\ writerPool = <<>>
  /\ sinks = [s \in Sinks |-> <<>>]

(***************************************************************************)
(* The state of a decoder.                                                 *)
(*   doc       the document the input was made from: its text and the      *)
(*             values it holds, in document order (history)                *)
(*   input     the bytes of the stream                                     *)
(*   pos       the bytes consumed from it                                  *)
(*   line, col the line and column of the Reader (1 and 1 under Parse)     *)
(*   pstack    the calls that have not returned: Parse or Read at the      *)
(*             bottom, and each parseObject, parseArray, key callback and  *)
(*             parseOne; h is the handler set a call works with            *)
(*   ret       under Parse the error of the call that returned last, under *)
(*             Read the err field of the Reader (Nil for nil)              *)
(*   calls     the callbacks invoked so far, with their arguments          *)
(*   seen      the values and keys of the stream a parseOne has met so far *)
(*   given     the handler set the last key mapping or Array callback      *)
(*             returned; at first the one passed to Parse or Read          *)
(*   covered   every handler set used so far registers the callback of the *)
(*             value it was used for, and no callback returned an error    *)
(***************************************************************************)
VARIABLES doc, input, pos, line, col, pstack, ret, calls, seen, covered, given

dvars == <<doc, input, pos, line, col, pstack, ret, calls, seen, covered, given>>

vars == <<wvars, dvars>>

(***************************************************************************)
(* What the caller of the Writer passes.                                   *)
(***************************************************************************)
\* the property name "a"
Names == {<<97>>}

\* the string of the two bytes '"' and 0x01
StringArgs == {<<34, 1>>}

IntArgs == {-12}

Finite(neg, micro) == [k |-> "fin", neg |-> neg, micro |-> micro]

NaN == [k |-> "nan", neg |-> FALSE, micro |-> 0]

Inf(neg) == [k |-> "inf", neg |-> neg, micro |-> 0]

\* 2.5 and NaN
FloatArgs == {Finite(FALSE, 2500000), NaN}

\* fragments for Raw: 1, and a quote and a backslash; a byte for RawByte
RawArgs == {<<49>>, <<34, 92>>}

RawByteArgs == {44}

PropValue(t, s, i, b, f) == [t |-> t, s |-> s, i |-> i, b |-> b, f |-> f]

\* the values of Prop that are no function; "other" is any type Prop does
\* not know
PropValues ==
  {PropValue("nil", <<>>, 0, FALSE, NaN), PropValue("other", <<>>, 0, FALSE, NaN)}
    \cup {PropValue("string", s, 0, FALSE, NaN) : s \in StringArgs}
    \cup {PropValue("int", <<>>, i, FALSE, NaN) : i \in IntArgs}
    \cup {PropValue("bool", <<>>, 0, b, NaN) : b \in BOOLEAN}
    \cup {PropValue("float64", <<>>, 0, FALSE, f) : f \in FloatArgs}

(***************************************************************************)
(* The JSON text each argument stands for, written out by hand.  A float   *)
(* that is not finite has none: the name fmt gives it holds its place.     *)
(***************************************************************************)
RefString(s) ==
  CASE s = <<97>> -> <<34, 97, 34>>
    [] s = <<34, 1>> -> <<34, 92, 34, 92, 117, 48, 48, 48, 49, 34>>

RefInt(i) == CASE i = -12 -> <<45, 49, 50>>

RefBool(b) == IF b THEN <<116, 114, 117, 101>> ELSE <<102, 97, 108, 115, 101>>

RefFloat(f) ==
  CASE f = Finite(FALSE, 2500000) -> <<50, 46, 53, 48, 48, 48, 48, 48>>
    [] f = NaN -> <<78, 97, 78>>

RefValue(v) ==
  CASE v.t = "nil" -> <<110, 117, 108, 108>>
    [] v.t = "string" -> RefString(v.s)
    [] v.t = "int" -> RefInt(v.i)
    [] v.t = "bool" -> RefBool(v.b)
    [] v.t = "float64" -> RefFloat(v.f)
    [] OTHER -> <<>>

(***************************************************************************)
(* The caller.                                                             *)
(***************************************************************************)
Frame(fn, saveInObject) == [fn |-> fn, saveInObject |-> saveInObject, n |-> 0]

\* the closure that is running
Top == stack[Len(stack)]

Pop == SubSeq(stack, 1, Len(stack) - 1)

\* the running closure has made one more call
Counted == [stack EXCEPT ![Len(stack)].n = @ + 1]

CanCall == ~closed /\ jw.panic = NoPanic /\ ncalls < MaxCalls

\* the separator the call tree asks for: a sibling precedes in this closure
Sep == IF Top.n > 0 THEN <<44>> ELSE <<>>

\* a value may be written here: an array element, the one value of a
\* property, or the one top-level value
ValueLegal == Top.fn = "Array" \/ (Top.fn \in {"main", "Prop"} /\ Top.n = 0)

\* a call of a method that takes no function: st is the writer after it
Call(op, st, text, ok) ==
  /\ UNCHANGED dvars
  /\ CanCall
  /\ jw' = st
  /\ ncalls' = ncalls + 1
  /\ lastCall' = op
  /\ stack' = IF op \in {"Raw", "RawByte"} THEN stack ELSE Counted
  /\ want' = want \o Sep \o text
  /\ legal' = (legal /\ ok)
  /\ UNCHANGED <<closed, gjw, lvars>>

\* a call of a method that takes a function, up to the call of the function
CallFn(op, st, text, ok, frame) ==
  /\ UNCHANGED dvars
  /\ CanCall
  /\ jw' = st
  /\ ncalls' = ncalls + 1
  /\ lastCall' = op
  /\ stack' = IF st.panic = NoPanic THEN Append(Counted, frame) ELSE Counted
  /\ want' = want \o Sep \o text
  /\ legal' = (legal /\ ok)
  /\ UNCHANGED <<closed, gjw, lvars>>

\* the function of the innermost call returns, and the call completes
ReturnFn(fn, st, text, ok) ==
  /\ UNCHANGED dvars
  /\ ~closed
  /\ jw.panic = NoPanic
  /\ Top.fn = fn
  /\ jw' = st
  /\ lastCall' = "return"
  /\ stack' = Pop
  /\ want' = want \o text
  /\ legal' = (legal /\ ok)
  /\ UNCHANGED <<ncalls, closed, gjw, lvars>>

CallNull == Call("Null", Null(jw), <<110, 117, 108, 108>>, ValueLegal)

CallString == \E s \in StringArgs : Call("String", String_(jw, s), RefString(s), ValueLegal)

CallInt == \E i \in IntArgs : Call("Int", Int_(jw, i), RefInt(i), ValueLegal)

CallBool == \E b \in BOOLEAN : Call("Bool", Bool(jw, b), RefBool(b), ValueLegal)

CallFloat64 == \E f \in FloatArgs : Call("Float64", Float64(jw, f), RefFloat(f), ValueLegal)

CallRaw == \E s \in RawArgs : Call("Raw", Raw(jw, s), <<>>, FALSE)

CallRawByte == \E b \in RawByteArgs : Call("RawByte", RawByte(jw, b), <<>>, FALSE)

CallProp ==
  \E name \in Names, v \in PropValues :
    Call("Prop", Prop(jw, name, v), RefString(name) \o <<58>> \o RefValue(v),
         Top.fn = "Object" /\ v.t # "other")

CallPropFunc ==
  \E name \in Names :
    CallFn("Prop", PropEnter(jw, name), RefString(name) \o <<58>>, Top.fn = "Object",
           Frame("Prop", FALSE))

ReturnProp == ReturnFn("Prop", PropExit(jw, TRUE), <<>>, Top.n = 1)

CallObject ==
  CallFn("Object", ObjectEnter(jw), <<123>>, ValueLegal, Frame("Object", jw.inObject))

ReturnObject == ReturnFn("Object", ObjectExit(jw, Top.saveInObject), <<125>>, TRUE)

CallArray == CallFn("Array", ArrayEnter(jw), <<91>>, ValueLegal, Frame("Array", FALSE))

ReturnArray == ReturnFn("Array", ArrayExit(jw), <<93>>, TRUE)

\* writer.Close, called by main
Close ==
  /\ UNCHANGED dvars
  /\ ~closed
  /\ jw.panic = NoPanic
  /\ Top.fn = "main"
  /\ closed' = TRUE
  /\ lastCall' = "Close"
  /\ legal' = (legal /\ Top.n = 1)
  /\ UNCHANGED <<jw, stack, ncalls, want, gjw, lvars>>

\* no decoder runs
NoDecoder ==
  /\ doc = [txt |-> <<>>, ev |-> <<>>]
  /\ input = <<>>
  /\ pos = 0
  /\ line = 1
  /\ col = 1
  /\ pstack = <<>>
  /\ ret = [msg |-> "", arg |-> <<>>]
  /\ calls = <<>>
  /\ seen = 0
  /\ covered = TRUE
  /\ given = IF pstack = <<>> THEN {} ELSE pstack[Len(pstack)].h

\* NewWriter
InitW ==
  /\ NoDecoder
  /\ jw = [w |-> <<>>, comma |-> FALSE, inObject |-> FALSE, panic |-> NoPanic]
  /\ stack = <<Frame("main", FALSE)>>
  /\ ncalls = 0
  /\ lastCall = "NewWriter"
  /\ closed = FALSE
  /\ want = <<>>
  /\ legal = TRUE
  /\ gjw = NoGZip
  /\ NoPool

NextW ==
  \/ CallNull
  \/ CallString
  \/ CallInt
  \/ CallBool
  \/ CallFloat64
  \/ CallRaw
  \/ CallRawByte
  \/ CallProp
  \/ CallPropFunc
  \/ ReturnProp
  \/ CallObject
  \/ ReturnObject
  \/ CallArray
  \/ ReturnArray
  \/ Close

SpecW == InitW /\ [][NextW]_vars

(***************************************************************************)
(* The documents the decoders are given.  A document is [txt, ev]: its     *)
(* bytes, and the values it holds in document order, each [kind, arg]:     *)
(*   null, bool <<0 or 1>>, int and float <<m, e>> (the number m * 10^e;   *)
(*   an int is written without fraction and exponent), string <<runes>>,   *)
(*   object, key <<runes>>, array.                                         *)
(***************************************************************************)
Ev(kind, arg) == [kind |-> kind, arg |-> arg]

Doc(txt, ev) == [txt |-> txt, ev |-> ev]

\* the string "2020-02-29T23:59:59Z"
Timestamp ==
  <<50, 48, 50, 48, 45, 48, 50, 45, 50, 57, 84, 50, 51, 58, 53, 57, 58, 53, 57, 90>>

\* the time a string denotes by RFC 3339, for the strings of the documents
RefTime(s) == IF s = Timestamp THEN <<2020, 2, 29, 23, 59, 59, 0>> ELSE <<>>

\* the primitives that stand anywhere in a document: 42 and "b"
Prims ==
  {Doc(<<52, 50>>, <<Ev("int", <<42, 0>>)>>),
   Doc(<<34, 98, 34>>, <<Ev("string", <<98>>)>>)}

\* the primitives that stand at the top level only: null, true, false, 123,
\* -7, 42.5, 1e2, "", "A\n", "😀" (U+1F600 as a surrogate
\* pair), the two bytes of U+00E9 in quotes, and the timestamp in quotes
TopPrims ==
  {Doc(<<110, 117, 108, 108>>, <<Ev("null", <<>>)>>),
   Doc(<<116, 114, 117, 101>>, <<Ev("bool", <<1>>)>>),
   Doc(<<102, 97, 108, 115, 101>>, <<Ev("bool", <<0>>)>>),
   Doc(<<49, 50, 51>>, <<Ev("int", <<123, 0>>)>>),
   Doc(<<45, 55>>, <<Ev("int", <<-7, 0>>)>>),
   Doc(<<52, 50, 46, 53>>, <<Ev("float", <<425, -1>>)>>),
   Doc(<<49, 101, 50>>, <<Ev("float", <<1, 2>>)>>),
   Doc(<<34, 34>>, <<Ev("string", <<>>)>>),
   Doc(<<34, 92, 117, 48, 48, 52, 49, 92, 110, 34>>, <<Ev("string", <<65, 10>>)>>),
   Doc(<<34, 92, 117, 100, 56, 51, 100, 92, 117, 100, 101, 48, 48, 34>>,
       <<Ev("string", <<128512>>)>>),
   Doc(<<34, 195, 169, 34>>, <<Ev("string", <<233>>)>>),
   Doc(<<34>> \o Timestamp \o <<34>>, <<Ev("string", Timestamp)>>)}

\* the key "a"
Keys == {<<97>>}

Arr(l) == Doc(<<91>> \o l.txt \o <<93>>, <<Ev("array", <<>>)>> \o l.ev)

Obj(l) == Doc(<<123>> \o l.txt \o <<125>>, <<Ev("object", <<>>)>> \o l.ev)

Member(k, v) == Doc(<<34>> \o k \o <<34, 58>> \o v.txt, <<Ev("key", k)>> \o v.ev)

Join(a, b) == Doc(a.txt \o <<44>> \o b.txt, a.ev \o b.ev)

RECURSIVE ValsOf(_)
RECURSIVE ElemLists(_)
RECURSIVE MemberLists(_)
\* the values of n nodes
ValsOf(n) ==
  IF n = 1
    THEN Prims \cup {Doc(<<91, 93>>, <<Ev("array", <<>>)>>),
                     Doc(<<123, 125>>, <<Ev("object", <<>>)>>)}
    ELSE {Arr(l) : l \in ElemLists(n - 1)} \cup {Obj(l) : l \in MemberLists(n - 1)}

\* the non-empty element lists of n nodes
ElemLists(n) ==
  ValsOf(n) \cup UNION {{Join(v, l) : v \in ValsOf(k), l \in ElemLists(n - k)} : k \in 1..(n - 1)}

\* the non-empty member lists whose values have n nodes
MemberLists(n) ==
  {Member(k, v) : k \in Keys, v \in ValsOf(n)}
    \cup UNION {{Join(Member(k, v), l) : k \in Keys, v \in ValsOf(j), l \in MemberLists(n - j)} :
                  j \in 1..(n - 1)}

\* streams that are no JSON text: the empty stream, [,] and [42, and the
\* values a decoder meets in them
Broken ==
  {Doc(<<>>, <<>>),
   Doc(<<91, 44, 93>>, <<Ev("array", <<>>)>>),
   Doc(<<91, 52, 50, 44>>, <<Ev("array", <<>>), Ev("int", <<42, 0>>)>>)}

Docs == TopPrims \cup Broken \cup UNION {ValsOf(n) : n \in 1..MaxNodes}

\* the documents of one node fewer: those the Reader is given, and those
\* that are cut short
DocsT == TopPrims \cup Broken \cup UNION {ValsOf(n) : n \in 1..(MaxNodes - 1)}

RECURSIVE Spaced(_, _, _)
\* txt from its i-th byte, with whitespace around each structural byte
Spaced(txt, i, inStr) ==
  IF i > Len(txt) THEN <<>>
  ELSE LET c == txt[i]
       IN  IF inStr
             THEN IF c = 92 THEN <<c, txt[i + 1]>> \o Spaced(txt, i + 2, TRUE)
                  ELSE <<c>> \o Spaced(txt, i + 1, c # 34)
             ELSE IF c = 34 THEN <<c>> \o Spaced(txt, i + 1, TRUE)
             ELSE IF c \in {123, 125, 91, 93, 44, 58} THEN <<32, c, 10>> \o Spaced(txt, i + 1, FALSE)
             ELSE <<c>> \o Spaced(txt, i + 1, FALSE)

\* what may follow the document in the stream: nothing, a form feed, " abc"
Tails == {<<>>, <<12>>, <<32, 97, 98, 99>>}

\* the streams made from a document: its text and a tail, or its text with
\* whitespace before, inside and after it
Inputs(d) == {d.txt \o tl : tl \in Tails} \cup {<<9>> \o Spaced(d.txt, 1, FALSE) \o <<13>>}

(***************************************************************************)
(* Handler sets: the names of the callbacks that are not nil.              *)
(***************************************************************************)
HAll == {"Null", "Int", "Float", "String", "Time", "Bool", "Object", "Array"}

\* the handler sets a caller passes, and a callback or key mapping returns
HandlerSets == {HAll, {}, {"Float", "Time", "Null"}, {"Int", "String", "Bool", "Object", "Array"}}

\* a test for emptiness that no handler set passes
EmptyNever(h) == FALSE

\* Handlers.empty of Parse
EmptyP(h) == h \cap HAll = {}

\* errors: nil, an error with a message, and the error naming a key
Err(msg, arg) == [msg |-> msg, arg |-> arg]

Nil == Err("", <<>>)

E(msg) == Err(msg, <<>>)

\* what a callback of the caller returns
CallbackErrors == {Nil, E("callback failed")}

Cb(cb, arg) == [cb |-> cb, arg |-> arg]

\* what a recognizer of a primitive does: the position it leaves, the
\* callback it invokes (cb is "" when it invokes none) and the error it
\* returns when it invokes none
Lex(p, cb, arg, err) == [pos |-> p, cb |-> cb, arg |-> arg, err |-> err]

(***************************************************************************)
(* Parse and its functions.                                                *)
(***************************************************************************)
RECURSIVE SkipWhitespaceP(_, _)
\* skipWhitespace
SkipWhitespaceP(in, p) ==
  IF ReadRune(in, p).c \in {32, 9, 13, 10} THEN SkipWhitespaceP(in, p + 1) ELSE p

\* unicode.IsSpace
IsSpace(r) ==
  r \in {9, 10, 11, 12, 13, 32, 133, 160, 5760, 8232, 8233, 8239, 8287, 12288}
    \/ (r >= 8192 /\ r <= 8202)

RECURSIVE SkipSpace(_, _)
\* the rune d has been read at p
SkipRune(in, p, d) == IF IsSpace(d.c) THEN SkipSpace(in, p + d.size) ELSE p

\* the loop of Parse after the value, up to the end or a rune that is no space
SkipSpace(in, p) == SkipRune(in, p, ReadRune(in, p))

\* parseNumber with Float tried before Int
NumberValueFloatFirst(tok, q, h) ==
  IF "Float" \in h /\ ParseFloatOK(tok) THEN Lex(q, "Float", ParseFloat(tok), Nil)
  ELSE IF "Int" \in h /\ AtoiOK(tok) THEN Lex(q, "Int", <<Atoi(tok)>>, Nil)
  ELSE Lex(q, "", <<>>, E("unexpected number in JSON"))

\* parseNumber with the bytes tok of the number read, the reader at q
NumberValueP(tok, q, h) ==
  IF "Int" \in h /\ AtoiOK(tok) THEN Lex(q, "Int", <<Atoi(tok)>>, Nil)
  ELSE IF "Float" \in h
    THEN IF ParseFloatOK(tok) THEN Lex(q, "Float", ParseFloat(tok), Nil)
         ELSE Lex(q, "", <<>>, E("invalid JSON number"))
  ELSE Lex(q, "", <<>>, E("unexpected number in JSON"))

\* the bytes tok have been read from p
NumberTokenP(tok, p, h) == NumberValueP(tok, p + Len(tok), h)

\* parseNumber, from the first byte of the number
ParseNumberP(in, p, h) == NumberTokenP(Run(in, p, NumberBytes), p, h)

\* parseKeyword with the bytes kw of the keyword read, the reader at q
KeywordValueP(kw, q, h) ==
  CASE kw = <<116, 114, 117, 101>> ->
         IF "Bool" \in h THEN Lex(q, "Bool", <<1>>, Nil)
         ELSE Lex(q, "", <<>>, E("unexpected Boolean in JSON"))
    [] kw = <<102, 97, 108, 115, 101>> ->
         IF "Bool" \in h THEN Lex(q, "Bool", <<0>>, Nil)
         ELSE Lex(q, "", <<>>, E("unexpected Boolean in JSON"))
    [] kw = <<110, 117, 108, 108>> ->
         IF "Null" \in h THEN Lex(q, "Null", <<>>, Nil)
         ELSE Lex(q, "", <<>>, E("unexpected null in JSON"))
    [] OTHER -> Lex(q, "", <<>>, E("unquoted string in JSON"))

\* the bytes kw have been read from p
KeywordTokenP(kw, p, h) == KeywordValueP(kw, p + Len(kw), h)

\* parseKeyword, from the first byte of the keyword
ParseKeywordP(in, p, h) == KeywordTokenP(Run(in, p, KeywordBytes), p, h)

\* parseString after its loop left sc
StringValueP(sc, h) ==
  IF sc.err # "" THEN Lex(sc.pos, "", <<>>, E(sc.err))
  ELSE IF "Time" \in h /\ ParseTimeOK(sc.s) THEN Lex(sc.pos, "Time", ParseTime(sc.s), Nil)
  ELSE IF "String" \in h THEN Lex(sc.pos, "String", sc.s, Nil)
  ELSE Lex(sc.pos, "", <<>>, E("unexpected string in JSON"))

\* parseString, from after the opening quote
ParseStringP(in, p, h) == StringValueP(ScanString(in, p, <<>>), h)

PFrame(k, h) == [k |-> k, h |-> h]

\* the call that is running
PTop == pstack[Len(pstack)]

PRest == SubSeq(pstack, 1, Len(pstack) - 1)

\* a parseOne has been called and has not started
AtValue == pstack # <<>> /\ PTop.k \in {"one", "onekey"}

\* its handlers: those passed, or Handlers{String: ...} of parseObject for a key
H == IF PTop.k = "onekey" THEN {"String"} ELSE PTop.h

\* where parseOne's skipWhitespace stops, and the rune read there
Start == SkipWhitespaceP(input, pos)

First == ReadRune(input, Start)

\* the value the document holds where the decoder stands
Expect == IF seen < Len(doc.ev) THEN doc.ev[seen + 1] ELSE Ev("none", <<>>)

\* the handler set h registers the callback for a value e
Covers(h, e) ==
  CASE e.kind = "null" -> "Null" \in h
    [] e.kind = "bool" -> "Bool" \in h
    [] e.kind = "int" -> "Int" \in h \/ "Float" \in h
    [] e.kind = "float" -> "Float" \in h
    [] e.kind = "string" -> "String" \in h \/ ("Time" \in h /\ RefTime(e.arg) # <<>>)
    [] e.kind = "key" -> "String" \in h
    [] e.kind = "object" -> "Object" \in h
    [] e.kind = "array" -> "Array" \in h
    [] OTHER -> FALSE

\* the running call returns e
PReturn(e, p, cs, cov) ==
  /\ pos' = p
  /\ pstack' = PRest
  /\ ret' = e
  /\ calls' = cs
  /\ covered' = cov
  /\ UNCHANGED <<doc, input, line, col, wvars>>

\* the running call goes on as frames, the last of them a call of parseOne
PCall(frames, p, cs, cov) ==
  /\ pos' = p
  /\ pstack' = PRest \o frames
  /\ ret' = Nil
  /\ calls' = cs
  /\ covered' = cov
  /\ UNCHANGED <<doc, input, line, col, wvars>>

\* a recognizer of a primitive has run: the callback it invokes returns e
PLex(r, cov) ==
  IF r.cb = "" THEN PReturn(r.err, r.pos, calls, cov)
  ELSE \E e \in CallbackErrors : PReturn(e, r.pos, Append(calls, Cb(r.cb, r.arg)), cov /\ e = Nil)

\* parseOne at the end of the input
P_EOF ==
  /\ AtValue
  /\ UNCHANGED <<seen, given>>
  /\ \E d \in {First} : d.c = -1 /\ PReturn(E(EOF), Start, calls, covered)

\* parseOne at a rune that starts no value
P_SyntaxError ==
  /\ AtValue
  /\ UNCHANGED <<seen, given>>
  /\ \E d \in {First} :
       /\ d.c \notin ({-1, 123, 91, 45, 116, 102, 110, 34} \cup (48..57))
       /\ PReturn(E("JSON syntax error"), Start + d.size, calls, covered)

\* parseOne and parseObject, up to the first key
P_Object ==
  /\ AtValue
  /\ seen' = seen + 1
  /\ UNCHANGED given
  /\ \E d \in {First} :
       /\ d.c = 123
       /\ \E p2 \in {SkipWhitespaceP(input, Start + 1)}, cov \in {covered /\ Covers(H, Expect)} :
            \E d2 \in {ReadRune(input, p2)}, cs \in {Append(calls, Cb("Object", <<>>))} :
              IF "Object" \notin H THEN PReturn(E("unexpected '{' in JSON"), Start + 1, calls, cov)
              ELSE IF d2.c = -1 THEN PReturn(E(EOF), p2, cs, cov)
              ELSE IF d2.c = 125 THEN PReturn(Nil, p2 + 1, cs, cov)
              ELSE PCall(<<PFrame("object", {}), PFrame("onekey", {})>>, p2, cs, cov)

\* parseOne and parseArray, up to the first element; the Array callback
\* returns vh
P_Array ==
  /\ AtValue
  /\ seen' = seen + 1
  /\ \E d \in {First} :
       /\ d.c = 91
       /\ \E p2 \in {SkipWhitespaceP(input, Start + 1)}, cov \in {covered /\ Covers(H, Expect)} :
            \E d2 \in {ReadRune(input, p2)}, cs \in {Append(calls, Cb("Array", <<>>))} :
              IF "Array" \notin H
                THEN PReturn(E("unexpected '[' in JSON"), Start + 1, calls, cov) /\ UNCHANGED given
              ELSE \E vh \in HandlerSets :
                     /\ given' = vh
                     /\ IF d2.c = -1 THEN PReturn(E(EOF), p2, cs, cov)
                        ELSE IF d2.c = 93 THEN PReturn(Nil, p2 + 1, cs, cov)
                        ELSE PCall(<<PFrame("array", vh), PFrame("one", vh)>>, p2, cs, cov)

\* parseOne and parseNumber
P_Number ==
  /\ AtValue
  /\ seen' = seen + 1
  /\ UNCHANGED given
  /\ \E d \in {First} :
       /\ d.c = 45 \/ IsDigit(d.c)
       /\ \E r \in {ParseNumberP(input, Start, H)} : PLex(r, covered /\ Covers(H, Expect))

\* parseOne and parseKeyword
P_Keyword ==
  /\ AtValue
  /\ seen' = seen + 1
  /\ UNCHANGED given
  /\ \E d \in {First} :
       /\ d.c \in {116, 102, 110}
       /\ \E r \in {ParseKeywordP(input, Start, H)} : PLex(r, covered /\ Covers(H, Expect))

\* parseOne and parseString, for a value
P_String ==
  /\ AtValue
  /\ seen' = seen + 1
  /\ UNCHANGED given
  /\ PTop.k = "one"
  /\ \E d \in {First} :
       /\ d.c = 34
       /\ \E r \in {ParseStringP(input, Start + 1, H)} : PLex(r, covered /\ Covers(H, Expect))

\* parseOne and parseString for a key, and the key callback of parseObject up
\* to its parseOne; the key mapping returns vh
P_Key ==
  /\ AtValue
  /\ seen' = seen + 1
  /\ PTop.k = "onekey"
  /\ \E d \in {First} :
       /\ d.c = 34
       /\ \E r \in {ParseStringP(input, Start + 1, H)} :
            \E p2 \in {SkipWhitespaceP(input, r.pos)}, cs \in {Append(calls, Cb("Key", r.arg))} :
              \E d2 \in {ReadRune(input, p2)} :
                IF r.cb = "" THEN PReturn(r.err, r.pos, calls, covered) /\ UNCHANGED given
                ELSE \E vh \in HandlerSets :
                       /\ given' = vh
                       /\ IF EmptyP(vh)
                            THEN PReturn(Err("unexpected key in JSON", r.arg), r.pos, cs, FALSE)
                          ELSE IF d2.c = -1 THEN PReturn(E(EOF), p2, cs, covered)
                          ELSE IF d2.c # 58
                            THEN PReturn(E("expected ':' in JSON"), p2 + d2.size, cs, covered)
                          ELSE PCall(<<PFrame("keycb", {}), PFrame("one", vh)>>, p2 + 1, cs, covered)

\* the key callback returns what its parseOne returned, and so do the
\* parseString and the parseOne that called it
P_KeyReturn ==
  /\ pstack # <<>>
  /\ UNCHANGED <<seen, given>>
  /\ PTop.k = "keycb"
  /\ PReturn(ret, pos, calls, covered)

\* parseObject after a member
P_ObjectNext ==
  /\ pstack # <<>>
  /\ UNCHANGED <<seen, given>>
  /\ PTop.k = "object"
  /\ \E p2 \in {SkipWhitespaceP(input, pos)} :
       \E d2 \in {ReadRune(input, p2)} :
         IF ret # Nil THEN PReturn(ret, pos, calls, covered)
         ELSE IF d2.c = -1 THEN PReturn(E(EOF), p2, calls, covered)
         ELSE IF d2.c = 125 THEN PReturn(Nil, p2 + 1, calls, covered)
         ELSE IF d2.c # 44
           THEN PReturn(E("expected '}' or ',' in JSON"), p2 + d2.size, calls, covered)
         ELSE PCall(<<PFrame("object", {}), PFrame("onekey", {})>>, p2 + 1, calls, covered)

\* parseArray after an element, with the end of the input taken as the end
\* of the array
P_ArrayNextClosing ==
  /\ pstack # <<>>
  /\ UNCHANGED <<seen, given>>
  /\ PTop.k = "array"
  /\ \E p2 \in {SkipWhitespaceP(input, pos)} :
       \E d2 \in {ReadRune(input, p2)} :
         IF ret # Nil THEN PReturn(ret, pos, calls, covered)
         ELSE IF d2.c = -1 \/ d2.c = 93 THEN PReturn(Nil, p2 + d2.size, calls, covered)
         ELSE IF d2.c # 44
           THEN PReturn(E("expected ']' or ',' in JSON"), p2 + d2.size, calls, covered)
         ELSE PCall(<<PFrame("array", PTop.h), PFrame("one", PTop.h)>>, p2 + 1, calls, covered)

\* parseArray after an element, with the comma pushed back
P_ArrayNextNoComma ==
  /\ pstack # <<>>
  /\ UNCHANGED <<seen, given>>
  /\ PTop.k = "array"
  /\ \E p2 \in {SkipWhitespaceP(input, pos)} :
       \E d2 \in {ReadRune(input, p2)} :
         IF ret # Nil THEN PReturn(ret, pos, calls, covered)
         ELSE IF d2.c = -1 THEN PReturn(E(EOF), p2, calls, covered)
         ELSE IF d2.c = 93 THEN PReturn(Nil, p2 + 1, calls, covered)
         ELSE IF d2.c # 44
           THEN PReturn(E("expected ']' or ',' in JSON"), p2 + d2.size, calls, covered)
         ELSE PCall(<<PFrame("array", PTop.h), PFrame("one", PTop.h)>>, p2, calls, covered)

\* parseArray after an element, asking handlers.Array() again for every
\* element
P_ArrayNextRequery ==
  /\ pstack # <<>>
  /\ UNCHANGED <<seen, given>>
  /\ PTop.k = "array"
  /\ \E p2 \in {SkipWhitespaceP(input, pos)} :
       \E d2 \in {ReadRune(input, p2)} :
         IF ret # Nil THEN PReturn(ret, pos, calls, covered)
         ELSE IF d2.c = -1 THEN PReturn(E(EOF), p2, calls, covered)
         ELSE IF d2.c = 93 THEN PReturn(Nil, p2 + 1, calls, covered)
         ELSE IF d2.c # 44
           THEN PReturn(E("expected ']' or ',' in JSON"), p2 + d2.size, calls, covered)
         ELSE \E vh \in HandlerSets :
                PCall(<<PFrame("array", vh), PFrame("one", vh)>>, p2 + 1,
                      Append(calls, Cb("Array", <<>>)), covered)

\* parseArray after an element, without its test of the error of the
\* element
P_ArrayNextUnchecked ==
  /\ pstack # <<>>
  /\ UNCHANGED <<seen, given>>
  /\ PTop.k = "array"
  /\ \E p2 \in {SkipWhitespaceP(input, pos)} :
       \E d2 \in {ReadRune(input, p2)} :
         IF d2.c = -1 THEN PReturn(E(EOF), p2, calls, covered)
         ELSE IF d2.c = 93 THEN PReturn(ret, p2 + 1, calls, covered)
         ELSE IF d2.c # 44
           THEN PReturn(E("expected ']' or ',' in JSON"), p2 + d2.size, calls, covered)
         ELSE PCall(<<PFrame("array", PTop.h), PFrame("one", PTop.h)>>, p2 + 1, calls, covered)

\* parseArray after an element
P_ArrayNext ==
  /\ pstack # <<>>
  /\ UNCHANGED <<seen, given>>
  /\ PTop.k = "array"
  /\ \E p2 \in {SkipWhitespaceP(input, pos)} :
       \E d2 \in {ReadRune(input, p2)} :
         IF ret # Nil THEN PReturn(ret, pos, calls, covered)
         ELSE IF d2.c = -1 THEN PReturn(E(EOF), p2, calls, covered)
         ELSE IF d2.c = 93 THEN PReturn(Nil, p2 + 1, calls, covered)
         ELSE IF d2.c # 44
           THEN PReturn(E("expected ']' or ',' in JSON"), p2 + d2.size, calls, covered)
         ELSE PCall(<<PFrame("array", PTop.h), PFrame("one", PTop.h)>>, p2 + 1, calls, covered)

\* Parse after its parseOne: the loop over what follows the value
P_Trailing ==
  /\ pstack # <<>>
  /\ UNCHANGED <<seen, given>>
  /\ PTop.k = "Parse"
  /\ \E p2 \in {SkipSpace(input, pos)} :
       \E d2 \in {ReadRune(input, p2)} :
         IF ret # Nil THEN PReturn(ret, pos, calls, covered)
         ELSE IF d2.c = -1 THEN PReturn(Nil, p2, calls, covered)
         ELSE PReturn(E("extra text after JSON"), p2 + d2.size, calls, covered)

\* Parse is called with a stream and a handler set
InitP ==
  /\ jw = [w |-> <<>>, comma |-> FALSE, inObject |-> FALSE, panic |-> NoPanic]
  /\ stack = <<Frame("main", FALSE)>>
  /\ ncalls = 0
  /\ lastCall = "NewWriter"
  /\ closed = FALSE
  /\ want = <<>>
  /\ legal = TRUE
  /\ gjw = NoGZip
  /\ NoPool
  /\ doc \in Docs
  /\ input \in Inputs(doc)
  /\ pos = 0
  /\ line = 1
  /\ col = 1
  /\ \E h \in HandlerSets : pstack = <<PFrame("Parse", {}), PFrame("one", h)>>
  /\ ret = Nil
  /\ calls = <<>>
  /\ seen = 0
  /\ covered = TRUE
  /\ given = IF pstack = <<>> THEN {} ELSE pstack[Len(pstack)].h

NextP ==
  \/ P_EOF
  \/ P_SyntaxError
  \/ P_Object
  \/ P_Array
  \/ P_Number
  \/ P_Keyword
  \/ P_String
  \/ P_Key
  \/ P_KeyReturn
  \/ P_ObjectNext
  \/ P_ArrayNext
  \/ P_Trailing

SpecP == InitP /\ [][NextP]_vars

(***************************************************************************)
(* The Reader and its methods.  A Reader is [pos, line, col, err], with r  *)
(* the rune its last readRune returned and last the size of that rune.     *)
(***************************************************************************)
\* the streams a Reader reads through: the text of a document with a NUL
\* before each token, a NUL after each number and keyword, and a NUL and an
\* x after the opening bracket of a container that is not empty
IsAtom(c) == c \notin {123, 125, 91, 93, 44, 58, 34}

RECURSIVE Nul(_, _, _)
Nul(txt, i, inStr) ==
  IF i > Len(txt) THEN <<>>
  ELSE LET c == txt[i]
           nx == IF i < Len(txt) THEN txt[i + 1] ELSE 0
       IN  IF inStr
             THEN IF c = 92 THEN <<c, nx>> \o Nul(txt, i + 2, TRUE)
                  ELSE <<c>> \o Nul(txt, i + 1, c # 34)
             ELSE IF c = 34 THEN <<0, c>> \o Nul(txt, i + 1, TRUE)
             ELSE IF c \in {123, 91}
               THEN <<0, c>> \o (IF nx \in {125, 93} THEN <<>> ELSE <<0, 120>>) \o Nul(txt, i + 1, FALSE)
             ELSE IF c \in {125, 93, 44, 58} THEN <<0, c>> \o Nul(txt, i + 1, FALSE)
             ELSE (IF i = 1 \/ ~IsAtom(txt[i - 1]) THEN <<0, c>> ELSE <<c>>)
                    \o (IF IsAtom(nx) /\ i < Len(txt) THEN <<>> ELSE <<0>>)
                    \o Nul(txt, i + 1, FALSE)

\* the streams made from a document for a Reader: its text, its text with
\* whitespace, its text with NULs and, for a document of one value, its
\* text with NULs and then " abc"
InputsR(d) ==
  {d.txt, <<9>> \o Spaced(d.txt, 1, FALSE) \o <<13>>, Nul(d.txt, 1, FALSE)}
    \cup (IF Len(d.ev) = 1 THEN {Nul(d.txt, 1, FALSE) \o <<32, 97, 98, 99>>} ELSE {})

HAllR == HAll \cup {"Ignore"}

\* the handler sets a caller of the Reader passes and returns
HandlerSetsR ==
  {HAll, {}, {"Ignore"}, {"Ignore", "String", "Int", "Array"}, {"Float", "Time", "Null"},
   {"Int", "String", "Bool", "Object", "Array"}}

\* Handlers.empty of the Reader
EmptyR(h) == h \cap HAllR = {}

\* the Reader of the state
Rd == [pos |-> pos, line |-> line, col |-> col, err |-> ret, r |-> 0, last |-> 0]

\* Reader.Raise
Raise(rd, msg) == IF rd.err = Nil THEN [rd EXCEPT !.err = Err(msg, <<rd.line, rd.col>>)] ELSE rd

\* Reader.Raise of the error that names a key
RaiseKey(rd, key) ==
  IF rd.err = Nil THEN [rd EXCEPT !.err = Err("unexpected key in JSON", <<rd.line, rd.col>> \o key)]
  ELSE rd

\* Reader.readRune, h.r.ReadRune() having returned d
ReadRuneOf(rd, d, allowEOF) ==
  IF d.c = -1
    THEN IF allowEOF THEN [rd EXCEPT !.r = 0, !.last = 0]
         ELSE [rd EXCEPT !.err = E(EOF), !.r = 0, !.last = 0]
    ELSE [pos |-> rd.pos + d.size,
          line |-> IF d.c = 10 THEN rd.line + 1 ELSE rd.line,
          col |-> IF d.c = 10 THEN 1 ELSE rd.col + 1,
          err |-> rd.err, r |-> d.c, last |-> d.size]

\* Reader.readRune
readRune(in, rd, allowEOF) == ReadRuneOf(rd, ReadRune(in, rd.pos), allowEOF)

\* Reader.unreadRune
unreadRune(rd) == [rd EXCEPT !.pos = @ - rd.last, !.col = @ - 1, !.last = 0]

RECURSIVE skipWhitespace(_, _)
\* the switch of skipWhitespace on the rune n.r it read
skipSwitch(in, n) ==
  IF n.r = 0 THEN n
  ELSE IF n.r \in {32, 9, 13, 10} THEN unreadRune(n)
  ELSE skipWhitespace(in, n)

\* Reader.skipWhitespace
skipWhitespace(in, rd) == skipSwitch(in, readRune(in, rd, FALSE))

RECURSIVE TokenLoop(_, _, _, _)
\* the body of the loop of parseNumber and parseKeyword, readRune(true)
\* having left n
TokenNext(in, n, tok, set) ==
  IF n.r = 0 THEN [rd |-> n, tok |-> tok]
  ELSE IF n.r \notin set THEN [rd |-> unreadRune(n), tok |-> tok]
  ELSE TokenLoop(in, n, Append(tok, n.r), set)

\* the loop of parseNumber and of parseKeyword: the Reader and the bytes read
TokenLoop(in, rd, tok, set) == TokenNext(in, readRune(in, rd, TRUE), tok, set)

\* what a method of a primitive does: the Reader it leaves and the callback
\* it invokes (cb is "" when it invokes none)
RLex(rd, cb, arg) == [rd |-> rd, cb |-> cb, arg |-> arg]

\* Reader.parseNumber after its loop, without the else branch of the
\* failed strconv.Atoi
NumberValueRNoElse(rd, tok, h) ==
  IF rd.err # Nil \/ "Ignore" \in h THEN RLex(rd, "", <<>>)
  ELSE IF "Int" \in h /\ AtoiOK(tok) THEN RLex(rd, "Int", <<Atoi(tok)>>)
  ELSE IF "Float" \in h
    THEN IF ParseFloatOK(tok) THEN RLex(rd, "Float", ParseFloat(tok))
         ELSE RLex(Raise(rd, "invalid JSON number"), "", <<>>)
  ELSE RLex(Raise(rd, "unexpected number in JSON"), "", <<>>)

\* Reader.parseNumber after its loop
NumberValueR(rd, tok, h) ==
  IF rd.err # Nil \/ "Ignore" \in h THEN RLex(rd, "", <<>>)
  ELSE IF "Int" \in h /\ AtoiOK(tok) THEN RLex(rd, "Int", <<Atoi(tok)>>)
  ELSE IF "Int" \in h /\ "Float" \notin h
    THEN RLex(Raise(rd, "JSON number is not an integer"), "", <<>>)
  ELSE IF "Float" \in h
    THEN IF ParseFloatOK(tok) THEN RLex(rd, "Float", ParseFloat(tok))
         ELSE RLex(Raise(rd, "invalid JSON number"), "", <<>>)
  ELSE RLex(Raise(rd, "unexpected number in JSON"), "", <<>>)

NumberTokenR(x, h) == NumberValueR(x.rd, x.tok, h)

\* Reader.parseNumber
ParseNumberR(in, rd, h) == NumberTokenR(TokenLoop(in, rd, <<>>, NumberBytes), h)

\* Reader.parseKeyword after its loop
KeywordValueR(rd, kw, h) ==
  CASE kw = <<116, 114, 117, 101>> ->
         IF "Ignore" \in h THEN RLex(rd, "", <<>>)
         ELSE IF "Bool" \in h THEN RLex(rd, "Bool", <<1>>)
         ELSE RLex(Raise(rd, "unexpected Boolean in JSON"), "", <<>>)
    [] kw = <<102, 97, 108, 115, 101>> ->
         IF "Ignore" \in h THEN RLex(rd, "", <<>>)
         ELSE IF "Bool" \in h THEN RLex(rd, "Bool", <<0>>)
         ELSE RLex(Raise(rd, "unexpected Boolean in JSON"), "", <<>>)
    [] kw = <<110, 117, 108, 108>> ->
         IF "Ignore" \in h THEN RLex(rd, "", <<>>)
         ELSE IF "Null" \in h THEN RLex(rd, "Null", <<>>)
         ELSE RLex(Raise(rd, "unexpected null in JSON"), "", <<>>)
    [] OTHER -> RLex(Raise(rd, "unquoted string in JSON"), "", <<>>)

KeywordTokenR(x, h) == KeywordValueR(x.rd, x.tok, h)

\* Reader.parseKeyword
ParseKeywordR(in, rd, h) == KeywordTokenR(TokenLoop(in, rd, <<>>, KeywordBytes), h)

\* what a round of the loop of Reader.parseString leaves: the loop goes on
\* ("more"), breaks at the closing quote ("quote") or the method returns
\* ("return")
RScan(rd, s, st) == [rd |-> rd, s |-> s, st |-> st]

\* the case 'u': h.r.Read(u[:]) reads the k bytes u
RScanHex(n, sb, k, u) ==
  IF k = 0 THEN RScan([n EXCEPT !.err = E(EOF)], sb, "return")
  ELSE IF k # 4
    THEN RScan(Raise([n EXCEPT !.pos = @ + k], "invalid Unicode escape in JSON string"), sb, "return")
  ELSE IF ~ParseHexOK(u)
    THEN RScan(Raise([n EXCEPT !.pos = @ + 4, !.col = @ + 4], "invalid Unicode escape in JSON string"),
               sb, "return")
  ELSE RScan([n EXCEPT !.pos = @ + 4, !.col = @ + 4], WriteRune(sb, ParseHex(u)), "more")

\* the switch on the rune n.r read after a backslash
RScanEscape(in, n, sb) ==
  IF n.r = 0 THEN RScan(n, sb, "return")
  ELSE IF n.r \in {34, 92, 47} THEN RScan(n, WriteRune(sb, n.r), "more")
  ELSE IF n.r = 98 THEN RScan(n, Append(sb, 8), "more")
  ELSE IF n.r = 102 THEN RScan(n, Append(sb, 12), "more")
  ELSE IF n.r = 110 THEN RScan(n, Append(sb, 10), "more")
  ELSE IF n.r = 114 THEN RScan(n, Append(sb, 13), "more")
  ELSE IF n.r = 116 THEN RScan(n, Append(sb, 9), "more")
  ELSE IF n.r = 117
    THEN RScanHex(n, sb, IF Len(in) - n.pos < 4 THEN Len(in) - n.pos ELSE 4,
                  Slice(in, n.pos, IF Len(in) - n.pos < 4 THEN Len(in) ELSE n.pos + 4))
  ELSE RScan(Raise(n, "unexpected escape sequence in JSON string"), sb, "return")

\* the switch on the rune n.r read in the string
RScanRune(in, n, sb) ==
  IF n.r = 0 THEN RScan(n, sb, "return")
  ELSE IF n.r = 34 THEN RScan(n, sb, "quote")
  ELSE IF n.r < 32 THEN RScan(Raise(n, "unexpected control character in JSON string"), sb, "return")
  ELSE IF n.r # 92 THEN RScan(n, WriteRune(sb, n.r), "more")
  ELSE RScanEscape(in, readRune(in, n, FALSE), sb)

RECURSIVE RScanString(_, _, _)
RScanNext(in, x) == IF x.st = "more" THEN RScanString(in, x.rd, x.s) ELSE x

\* the loop of Reader.parseString, from after the opening quote
RScanString(in, rd, sb) == RScanNext(in, RScanRune(in, readRune(in, rd, FALSE), sb))

\* Reader.parseString after its loop, with String tried before Time
StringValueStringFirst(x, h) ==
  IF x.st = "return" THEN RLex(x.rd, "", <<>>)
  ELSE IF "String" \in h THEN RLex(x.rd, "String", x.s)
  ELSE IF "Time" \in h /\ ParseTimeOK(x.s) THEN RLex(x.rd, "Time", ParseTime(x.s))
  ELSE IF "Time" \in h THEN RLex(Raise(x.rd, "invalid time string in JSON"), "", <<>>)
  ELSE RLex(Raise(x.rd, "unexpected string in JSON"), "", <<>>)

\* Reader.parseString after its loop left x
StringValueR(x, h) ==
  IF x.st = "return" THEN RLex(x.rd, "", <<>>)
  ELSE IF "Time" \in h /\ ParseTimeOK(x.s) THEN RLex(x.rd, "Time", ParseTime(x.s))
  ELSE IF "Time" \in h /\ "String" \notin h
    THEN RLex(Raise(x.rd, "invalid time string in JSON"), "", <<>>)
  ELSE IF "String" \in h THEN RLex(x.rd, "String", x.s)
  ELSE RLex(Raise(x.rd, "unexpected string in JSON"), "", <<>>)

\* Reader.parseString
ParseStringR(in, rd, h) == StringValueR(RScanString(in, rd, <<>>), h)

RECURSIVE TrailingLoop(_, _)
TrailingNext(in, n) ==
  IF n.r = 0 THEN n
  ELSE IF n.r \notin {32, 9, 13, 10} THEN Raise(n, "extra text after JSON")
  ELSE TrailingLoop(in, n)

\* the loop of Reader.Read after its parseOne
TrailingLoop(in, rd) == TrailingNext(in, readRune(in, rd, TRUE))

\* the handler set h of a Reader registers the callback for a value e, or
\* ignores it
CoversR(h, e) == "Ignore" \in h \/ Covers(h, e)

\* the Reader is left as rd
RSet(rd) ==
  /\ pos' = rd.pos
  /\ line' = rd.line
  /\ col' = rd.col
  /\ ret' = rd.err

\* the running method returns
RReturn(rd, cs, cov) ==
  /\ RSet(rd)
  /\ pstack' = PRest
  /\ calls' = cs
  /\ covered' = cov
  /\ UNCHANGED <<doc, input, wvars>>

\* the running method goes on as frames, the last of them a call of parseOne
RCall(frames, rd, cs, cov) ==
  /\ RSet(rd)
  /\ pstack' = PRest \o frames
  /\ calls' = cs
  /\ covered' = cov
  /\ UNCHANGED <<doc, input, wvars>>

\* a method of a primitive has run: the callback it invokes calls Raise or
\* does not
RLexed(x, cov) ==
  IF x.cb = "" THEN RReturn(x.rd, calls, cov)
  ELSE \E raises \in BOOLEAN :
         RReturn(IF raises THEN Raise(x.rd, "callback failed") ELSE x.rd,
                 Append(calls, Cb(x.cb, x.arg)), cov /\ ~raises)

\* the Reader after the skipWhitespace and the readRune of parseOne
RFirst == readRune(input, skipWhitespace(input, Rd), FALSE)

\* the handlers of the parseObject whose key callback runs
ObjectH == pstack[Len(pstack) - 1].h

\* parseOne reads 0: the end of the input or a NUL
R_Zero ==
  /\ AtValue
  /\ UNCHANGED <<seen, given>>
  /\ \E n \in {RFirst} : n.r = 0 /\ RReturn(n, calls, covered)

\* parseOne at a rune that starts no value
R_SyntaxError ==
  /\ AtValue
  /\ UNCHANGED <<seen, given>>
  /\ \E n \in {RFirst} :
       /\ n.r \notin ({0, 123, 91, 45, 116, 102, 110, 34} \cup (48..57))
       /\ RReturn(Raise(n, "syntax error in JSON"), calls, covered)

\* parseOne and parseObject, up to the first key
R_Object ==
  /\ AtValue
  /\ seen' = seen + 1
  /\ UNCHANGED given
  /\ \E n \in {RFirst}, cov \in {covered /\ CoversR(H, Expect)} :
       /\ n.r = 123
       /\ \E n2 \in {readRune(input, skipWhitespace(input, n), FALSE)} :
            IF "Object" \notin H /\ "Ignore" \notin H
              THEN RReturn(Raise(n, "unexpected '{' in JSON"), calls, cov)
            ELSE IF n2.r = 0 \/ n2.r = 125 THEN RReturn(n2, calls, cov)
            ELSE IF n2.err # Nil THEN RReturn(unreadRune(n2), calls, cov)
            ELSE RCall(<<PFrame("object", H), PFrame("onekey", {})>>, unreadRune(n2), calls, cov)

\* the Reader after a callback that was handed it: the callback calls Raise
\* or does not
Called(rd, raises) == IF raises THEN Raise(rd, "callback failed") ELSE rd

\* parseOne and parseArray, up to the first element; the Array callback
\* returns vh, having called Raise or not
R_Array ==
  /\ AtValue
  /\ seen' = seen + 1
  /\ \E n \in {RFirst} :
       /\ n.r = 91
       /\ IF "Array" \notin H /\ "Ignore" \notin H
            THEN /\ RReturn(Raise(n, "unexpected '[' in JSON"), calls, FALSE)
                 /\ UNCHANGED given
          ELSE \E vh \in IF "Ignore" \in H THEN {H} ELSE HandlerSetsR,
                  raises \in IF "Ignore" \in H THEN {FALSE} ELSE BOOLEAN,
                  cs \in {IF "Ignore" \in H THEN calls ELSE Append(calls, Cb("Array", <<>>))} :
                 \E n2 \in {readRune(input, skipWhitespace(input, Called(n, raises)), FALSE)},
                    cov \in {covered /\ CoversR(H, Expect) /\ ~raises} :
                   /\ given' = IF "Ignore" \in H THEN given ELSE vh
                   /\ IF n2.r = 0 \/ n2.r = 93 THEN RReturn(n2, cs, cov)
                      ELSE RCall(<<PFrame("array", vh), PFrame("one", vh)>>, unreadRune(n2), cs, cov)

\* parseOne and parseNumber
R_Number ==
  /\ AtValue
  /\ seen' = seen + 1
  /\ UNCHANGED given
  /\ \E n \in {RFirst} :
       /\ n.r = 45 \/ IsDigit(n.r)
       /\ \E x \in {ParseNumberR(input, unreadRune(n), H)} : RLexed(x, covered /\ CoversR(H, Expect))

\* parseOne and parseKeyword
R_Keyword ==
  /\ AtValue
  /\ seen' = seen + 1
  /\ UNCHANGED given
  /\ \E n \in {RFirst} :
       /\ n.r \in {116, 102, 110}
       /\ \E x \in {ParseKeywordR(input, unreadRune(n), H)} : RLexed(x, covered /\ CoversR(H, Expect))

\* parseOne and parseString, for a value
R_String ==
  /\ AtValue
  /\ PTop.k = "one"
  /\ seen' = seen + 1
  /\ UNCHANGED given
  /\ \E n \in {RFirst} :
       /\ n.r = 34
       /\ \E x \in {ParseStringR(input, n, H)} : RLexed(x, covered /\ CoversR(H, Expect))

\* parseOne and parseString for a key, and the String callback of parseObject
\* up to its parseOne; handlers.Object returns vh
R_Key ==
  /\ AtValue
  /\ PTop.k = "onekey"
  /\ seen' = seen + 1
  /\ \E n \in {RFirst} :
       /\ n.r = 34
       /\ \E x \in {ParseStringR(input, n, H)} :
            IF x.cb = "" THEN RReturn(x.rd, calls, covered) /\ UNCHANGED given
            ELSE \E vh \in IF "Ignore" \in ObjectH THEN {ObjectH} ELSE HandlerSetsR,
                    raises \in IF "Ignore" \in ObjectH THEN {FALSE} ELSE BOOLEAN,
                    cs \in {IF "Ignore" \in ObjectH THEN calls
                            ELSE Append(calls, Cb("Object", x.arg))} :
                   \E n1 \in {Called(x.rd, raises)}, cov \in {covered /\ ~raises} :
                     \E n2 \in {readRune(input, skipWhitespace(input, n1), FALSE)} :
                       /\ given' = IF "Ignore" \in ObjectH THEN given ELSE vh
                       /\ IF EmptyR(vh) THEN RReturn(RaiseKey(n1, x.arg), cs, FALSE)
                          ELSE IF n2.r = 0 THEN RReturn(n2, cs, cov)
                          ELSE IF n2.r # 58 THEN RReturn(Raise(n2, "expected ':' in JSON"), cs, cov)
                          ELSE RCall(<<PFrame("keycb", {}), PFrame("one", vh)>>, n2, cs, cov)

\* the String callback of parseObject returns, and so do the parseString
\* and the parseOne that called it
R_KeyReturn ==
  /\ pstack # <<>>
  /\ PTop.k = "keycb"
  /\ UNCHANGED <<seen, given>>
  /\ RReturn(Rd, calls, covered)

\* parseObject after a member
R_ObjectNext ==
  /\ pstack # <<>>
  /\ PTop.k = "object"
  /\ UNCHANGED <<seen, given>>
  /\ \E n2 \in {readRune(input, skipWhitespace(input, Rd), FALSE)} :
       IF ret # Nil THEN RReturn(Rd, calls, covered)
       ELSE IF n2.r = 0 \/ n2.r = 125 THEN RReturn(n2, calls, covered)
       ELSE IF n2.r # 44 THEN RReturn(Raise(n2, "expected '}' or ',' in JSON"), calls, covered)
       ELSE RCall(<<PFrame("object", PTop.h), PFrame("onekey", {})>>, n2, calls, covered)

\* parseArray after an element
R_ArrayNext ==
  /\ pstack # <<>>
  /\ PTop.k = "array"
  /\ UNCHANGED <<seen, given>>
  /\ \E n2 \in {readRune(input, skipWhitespace(input, Rd), FALSE)} :
       IF ret # Nil THEN RReturn(Rd, calls, covered)
       ELSE IF n2.r = 0 \/ n2.r = 93 THEN RReturn(n2, calls, covered)
       ELSE IF n2.r # 44 THEN RReturn(Raise(n2, "expected ']' or ',' in JSON"), calls, covered)
       ELSE RCall(<<PFrame("array", PTop.h), PFrame("one", PTop.h)>>, n2, calls, covered)

\* Read after its parseOne: the loop over what follows the value, and the
\* return of h.err
R_Trailing ==
  /\ pstack # <<>>
  /\ PTop.k = "Read"
  /\ UNCHANGED <<seen, given>>
  /\ RSet(IF ret # Nil THEN Rd ELSE TrailingLoop(input, Rd))
  /\ pstack' = <<PFrame("done", PTop.h)>>
  /\ UNCHANGED <<doc, input, calls, covered, wvars>>

\* NewReader on a stream, and Read called with a handler set
InitR ==
  /\ jw = [w |-> <<>>, comma |-> FALSE, inObject |-> FALSE, panic |-> NoPanic]
  /\ stack = <<Frame("main", FALSE)>>
  /\ ncalls = 0
  /\ lastCall = "NewWriter"
  /\ closed = FALSE
  /\ want = <<>>
  /\ legal = TRUE
  /\ gjw = NoGZip
  /\ NoPool
  /\ doc \in DocsT
  /\ input \in InputsR(doc)
  /\ pos = 0
  /\ line = 1
  /\ col = 1
  /\ \E h \in HandlerSetsR : pstack = <<PFrame("Read", h), PFrame("one", h)>>
  /\ ret = Nil
  /\ calls = <<>>
  /\ seen = 0
  /\ covered = TRUE
  /\ given = IF pstack = <<>> THEN {} ELSE pstack[Len(pstack)].h

NextR ==
  \/ R_Zero
  \/ R_SyntaxError
  \/ R_Object
  \/ R_Array
  \/ R_Number
  \/ R_Keyword
  \/ R_String
  \/ R_Key
  \/ R_KeyReturn
  \/ R_ObjectNext
  \/ R_ArrayNext
  \/ R_Trailing

SpecR == InitR /\ [][NextR]_vars

(***************************************************************************)
(* parseNumber and Reader.parseNumber as functions of the bytes of the     *)
(* stream and the handler set: each is called at the start of a stream     *)
(* that begins with a number token, and the frame of the call records the  *)
(* function and its handlers.                                              *)
(***************************************************************************)
\* 42, 42.5, -7, 1e2, -, 1., 01 and 1-2
NumberTokens ==
  {<<52, 50>>, <<52, 50, 46, 53>>, <<45, 55>>, <<49, 101, 50>>, <<45>>, <<49, 46>>, <<48, 49>>,
   <<49, 45, 50>>}

\* what follows the token in the stream: nothing, or a comma
NumberTails == {<<>>, <<44>>}

\* parseNumber is called
N_Parse ==
  /\ pstack # <<>>
  /\ PTop.k = "parseNumber"
  /\ \E r \in {ParseNumberP(input, pos, PTop.h)}, e \in CallbackErrors :
       /\ pos' = r.pos
       /\ ret' = IF r.cb = "" THEN r.err ELSE e
       /\ calls' = IF r.cb = "" THEN calls ELSE Append(calls, Cb(r.cb, r.arg))
  /\ pstack' = <<PFrame("parseNumber returned", PTop.h)>>
  /\ UNCHANGED <<doc, input, line, col, seen, covered, given, wvars>>

\* Reader.parseNumber is called
N_Reader ==
  /\ pstack # <<>>
  /\ PTop.k = "Reader.parseNumber"
  /\ \E x \in {ParseNumberR(input, Rd, PTop.h)}, raises \in BOOLEAN :
       /\ RSet(IF x.cb # "" /\ raises THEN Raise(x.rd, "callback failed") ELSE x.rd)
       /\ calls' = IF x.cb = "" THEN calls ELSE Append(calls, Cb(x.cb, x.arg))
  /\ pstack' = <<PFrame("Reader.parseNumber returned", PTop.h)>>
  /\ UNCHANGED <<doc, input, seen, covered, given, wvars>>

InitN ==
  /\ jw = [w |-> <<>>, comma |-> FALSE, inObject |-> FALSE, panic |-> NoPanic]
  /\ stack = <<Frame("main", FALSE)>>
  /\ ncalls = 0
  /\ lastCall = "NewWriter"
  /\ closed = FALSE
  /\ want = <<>>
  /\ legal = TRUE
  /\ gjw = NoGZip
  /\ NoPool
  /\ \E tok \in NumberTokens : doc = Doc(tok, <<>>)
  /\ \E tl \in NumberTails : input = doc.txt \o tl
  /\ pos = 0
  /\ line = 1
  /\ col = 1
  /\ \/ \E h \in SUBSET {"Int", "Float"} : pstack = <<PFrame("parseNumber", h)>>
     \/ \E h \in SUBSET {"Int", "Float", "Ignore"} : pstack = <<PFrame("Reader.parseNumber", h)>>
  /\ ret = Nil
  /\ calls = <<>>
  /\ seen = 0
  /\ covered = TRUE
  /\ given = IF pstack = <<>> THEN {} ELSE pstack[Len(pstack)].h

NextN ==
  \/ N_Parse
  \/ N_Reader

SpecN == InitN /\ [][NextN]_vars

(***************************************************************************)
(* The Writer's claims.                                                    *)
(***************************************************************************)
\* the value-producing methods
ValueMethods == {"Object", "Array", "Null", "String", "Int", "Bool", "Float64"}

\* this step is a call of one of the methods ops
Calls(ops) == ncalls' = ncalls + 1 /\ lastCall' \in ops

\* C1: while the calls respect the contract (one top-level value, only Prop
\* directly in an object body, one value per property, no Raw or RawByte), no
\* call panics, the bytes written are the text of the call tree, with a comma
\* before a value or property exactly when a sibling precedes it, and at Close
\* they are one well-formed JSON text.
C1_LegalCallsWriteJSON ==
  legal => /\ jw.panic = NoPanic
           /\ jw.w = want
           /\ closed => IsJSON(jw.w)

\* C2: a value-producing method called directly inside an object body
\* (inObject is true) panics and leaves the bytes written, comma and inObject
\* as they were.
C2_ObjectBodyOnlyProp ==
  [][(jw.inObject /\ Calls(ValueMethods))
       => jw' = [jw EXCEPT !.panic = ObjectPanic]]_vars

\* C2's case: Float64 was called inside an object body, and panicked
C2_Witness == lastCall = "Float64" /\ Top.fn = "Object" /\ jw.panic = ObjectPanic

\* C3: Prop called anywhere but directly in an Object's function (at the top
\* level, in an Array's function, in a Prop's value function) panics and
\* leaves the writer as it was; so a Prop that does not panic at once is
\* directly inside an object body.
C3_PropOnlyInObject ==
  [][(Calls({"Prop"}) /\ Top.fn # "Object")
       => jw' = [jw EXCEPT !.panic = "Prop can only occur within Object"]]_vars

\* C3's case: Prop was called in the value function of a Prop, and panicked
C3_Witness ==
  /\ lastCall = "Prop"
  /\ Top.fn = "Prop"
  /\ jw.panic = "Prop can only occur within Object"

\* C4: a Prop whose value function made no value-producing call, or more than
\* one, does not return normally: it panics.
C4_OneValuePerProp ==
  [][(Top.fn = "Prop" /\ Top.n # 1 /\ lastCall' = "return" /\ stack' = Pop)
       => jw'.panic # NoPanic]_vars

\* C5: a second value-producing call at the top level panics.
C5_SoleTopLevelValue ==
  [][(Top.fn = "main" /\ Top.n >= 1 /\ Calls(ValueMethods))
       => jw'.panic # NoPanic]_vars

(***************************************************************************)
(* Parse's claims.                                                         *)
(***************************************************************************)
\* the callback invocation c passes the value e of the document
Match(c, e) ==
  CASE e.kind = "null" -> c = Cb("Null", <<>>)
    [] e.kind = "bool" -> c = Cb("Bool", e.arg)
    [] e.kind = "int" -> c = Cb("Int", <<e.arg[1]>>) \/ c = Cb("Float", Normal(e.arg[1], e.arg[2]))
    [] e.kind = "float" -> c = Cb("Float", Normal(e.arg[1], e.arg[2]))
    [] e.kind = "string" -> c = Cb("String", e.arg) \/ (RefTime(e.arg) # <<>> /\ c = Cb("Time", RefTime(e.arg)))
    [] e.kind = "key" -> c = Cb("Key", e.arg)
    [] e.kind = "object" -> c = Cb("Object", <<>>)
    [] e.kind = "array" -> c = Cb("Array", <<>>)
    [] OTHER -> FALSE

\* Parse has returned
Returned == pstack = <<>>

\* C6: on a well-formed JSON document, the callbacks Parse invokes are the
\* values of the document in document order, each once and with the value
\* the document holds; and when the handler sets cover the document and no
\* callback fails, Parse returns nil having passed every value.
C6_DocumentOrder ==
  IsJSON(input) =>
    /\ Len(calls) <= Len(doc.ev)
    /\ \A i \in 1..Len(calls) : Match(calls[i], doc.ev[i])
    /\ (Returned /\ covered) => (ret = Nil /\ Len(calls) = Len(doc.ev))

\* C8: when Parse has parsed its one value, it returns nil if only space,
\* tab, CR and LF remain in the stream, and the error "extra text after
\* JSON" if any other rune remains.
C8_TrailingContent ==
  [][(pstack # <<>> /\ PTop.k = "Parse" /\ ret = Nil /\ pstack' = <<>>)
       => IF \A k \in (pos + 1)..Len(input) : input[k] \in {32, 9, 13, 10}
            THEN ret' = Nil
            ELSE ret' = E("extra text after JSON")]_vars

(***************************************************************************)
(* The Reader's claims.                                                    *)
(***************************************************************************)
\* Read has returned
ReturnedR == pstack # <<>> /\ PTop.k = "done"

\* C7: Read on a stream that is one valid JSON value of one node, with or
\* without whitespace around it, and a handler set that registers the
\* callback of its kind, returns nil and has invoked that callback (an
\* object has none), unless the callback raised an error.
C7_ReadOneValue ==
  (/\ ReturnedR
   /\ IsJSON(input)
   /\ Len(doc.ev) = 1
   /\ "Ignore" \notin PTop.h
   /\ Covers(PTop.h, doc.ev[1])
   /\ covered)
    => /\ ret = Nil
       /\ IF doc.ev[1].kind = "object" THEN calls = <<>>
          ELSE Len(calls) = 1 /\ Match(calls[1], doc.ev[1])

\* C9: a parseOne with the Ignore flag set in its handlers that stands at a
\* well-formed JSON value and returns raises no error and invokes no
\* callback.
C9_IgnoreSubtree ==
  [][(/\ AtValue
      /\ PTop.k = "one"
      /\ "Ignore" \in PTop.h
      /\ ret = Nil
      /\ RFirst.r # 0
      /\ ValueEnd(input, RFirst.pos) # 0
      /\ pstack' = PRest)
       => (ret' = Nil /\ calls' = calls)]_vars

(***************************************************************************)
(* The claims of parseNumber.                                              *)
(***************************************************************************)
\* parseNumber or Reader.parseNumber has returned
NumberDone == pstack # <<>> /\ PTop.k \in {"parseNumber returned", "Reader.parseNumber returned"}

\* the callbacks the precedence of the claim gives the token tok under the
\* handlers h
Precedence(tok, h) ==
  IF "Int" \in h /\ AtoiOK(tok) THEN <<Cb("Int", <<Atoi(tok)>>)>>
  ELSE IF "Float" \in h /\ ParseFloatOK(tok) THEN <<Cb("Float", ParseFloat(tok))>>
  ELSE <<>>

\* C10 as stated: for a number token, Int is invoked alone if it is
\* registered and the token converts to an integer, otherwise Float alone if
\* it is registered and the token converts to a float, and nothing else.
C10_Original == NumberDone => calls = Precedence(doc.txt, PTop.h)

\* C10: for a number token and handlers whose Ignore flag is not set, Int is
\* invoked alone if it is registered and the token converts to an integer,
\* otherwise Float alone if it is registered and the token converts to a
\* float, and nothing else; so 42 with both registered invokes Int with 42
\* and 42.5 invokes Float with 42.5.
C10_NumberPrecedence ==
  (NumberDone /\ "Ignore" \notin PTop.h) =>
    /\ calls = Precedence(doc.txt, PTop.h)
    /\ Len(calls) <= 1
    /\ (doc.txt = <<52, 50>> /\ {"Int", "Float"} \subseteq PTop.h) => calls = <<Cb("Int", <<42>>)>>
    /\ (doc.txt = <<52, 50, 46, 53>> /\ {"Int", "Float"} \subseteq PTop.h)
         => calls = <<Cb("Float", <<425, -1>>)>>

\* 42 has been given to Reader.parseNumber with Int and Float registered,
\* and Int has been invoked with 42
C10_Witness ==
  /\ NumberDone
  /\ PTop.k = "Reader.parseNumber returned"
  /\ PTop.h = {"Int", "Float"}
  /\ doc.txt = <<52, 50>>
  /\ calls = <<Cb("Int", <<42>>)>>

\* the text of the string value the parseOne of the state stands at, when
\* the loop of parseString reads it up to its closing quote
StringRead == RScanString(input, RFirst, <<>>)

\* a parseOne of a value stands at a string whose closing quote is there
AtString ==
  /\ AtValue
  /\ PTop.k = "one"
  /\ ret = Nil
  /\ RFirst.r = 34
  /\ StringRead.st = "quote"

IsParse == pstack # <<>> /\ pstack[1].k = "Parse"

IsRead == pstack # <<>> /\ pstack[1].k = "Read"

InitD == InitP \/ InitR

NextD ==
  \/ IsParse /\ NextP
  \/ IsRead /\ NextR

SpecD == InitD /\ [][NextD]_vars

\* the key an "unexpected key" error names: Raise of the Reader puts the
\* line and the column of the Reader before it
KeyOf(err) == IF IsRead THEN SubSeq(err.arg, 3, Len(err.arg)) ELSE err.arg

\* the key callback of a parseObject runs, and the key mapping it queries
\* returns a handler set with no callback and no Ignore, without having
\* called Raise itself
KeyRefused ==
  /\ AtValue
  /\ PTop.k = "onekey"
  /\ calls' # calls
  /\ given' = {}
  /\ ret'.msg # "callback failed"

\* C12: in both decoders, when the key mapping of an object returns an
\* empty handler set for a key, the key callback returns the error
\* "unexpected key in JSON" that names the key without parsing the value
\* of the key, and from then on the decoder consumes no input, invokes no
\* callback, queries the mapping for no later key and keeps that error.
C12_UnexpectedKey ==
  [][/\ KeyRefused =>
          /\ ret'.msg = "unexpected key in JSON"
          /\ KeyOf(ret') = calls'[Len(calls')].arg
          /\ calls' = Append(calls, calls'[Len(calls')])
          /\ pstack' = PRest
     /\ ret.msg = "unexpected key in JSON" =>
          /\ calls' = calls
          /\ ret' = ret
          /\ pos' = pos
          /\ Len(pstack') < Len(pstack) \/ pstack' = <<PFrame("done", PTop.h)>>]_vars

\* Parse has returned the error that names the key a of an object whose
\* mapping refused it; the object has a second member, which no callback
\* has seen
C12_Witness ==
  /\ Returned
  /\ ret = Err("unexpected key in JSON", <<97>>)
  /\ calls = <<Cb("Object", <<>>), Cb("Key", <<97>>)>>
  /\ Len(doc.ev) > 3

\* C13: once an error has been recorded in the Reader, no step replaces it,
\* consumes input or invokes a callback of the caller, so that the first
\* error is the one Read returns.
C13_FirstErrorWins ==
  [][ret # Nil => (ret' = ret /\ pos' = pos /\ calls' = calls)]_vars

\* C14: when a value callback has returned an error to Parse, every later
\* step is a return that keeps that error, and no step invokes a value
\* callback, a key mapping or an Array or Object callback, at any depth, so
\* that Parse returns that error as it is.
C14_CallbackError ==
  [][ret = E("callback failed") =>
       /\ ret' = ret
       /\ calls' = calls
       /\ given' = given
       /\ pos' = pos
       /\ pstack' = PRest]_vars

\* Parse has returned the error of the Int callback for the first element
\* of an array that is the value of a key; the array has a second element
C14_Witness ==
  /\ Returned
  /\ ret = E("callback failed")
  /\ calls = <<Cb("Object", <<>>), Cb("Key", <<97>>), Cb("Array", <<>>), Cb("Int", <<42>>)>>
  /\ Len(doc.ev) = 5

(***************************************************************************)
(* Parse on a stream that stops early: the first n bytes of a document,    *)
(* for every n, and a stream of whitespace only.                           *)
(***************************************************************************)
Prefixes(txt) == {SubSeq(txt, 1, n) : n \in 0..Len(txt)}

InputsT(d) == Prefixes(d.txt) \cup {<<32, 10>>}

InitT ==
  /\ jw = [w |-> <<>>, comma |-> FALSE, inObject |-> FALSE, panic |-> NoPanic]
  /\ stack = <<Frame("main", FALSE)>>
  /\ ncalls = 0
  /\ lastCall = "NewWriter"
  /\ closed = FALSE
  /\ want = <<>>
  /\ legal = TRUE
  /\ gjw = NoGZip
  /\ NoPool
  /\ doc \in DocsT
  /\ input \in InputsT(doc)
  /\ pos = 0
  /\ line = 1
  /\ col = 1
  /\ \E h \in HandlerSets : pstack = <<PFrame("Parse", {}), PFrame("one", h)>>
  /\ ret = Nil
  /\ calls = <<>>
  /\ seen = 0
  /\ covered = TRUE
  /\ given = pstack[Len(pstack)].h

SpecT == InitT /\ [][NextP]_vars

RECURSIVE OpenAt(_, _, _, _)
\* where the text s stands after its bytes from the i-th on, having stood
\* inside a string or not and inside depth containers before them
OpenAt(s, i, inStr, depth) ==
  IF i > Len(s) THEN [inStr |-> inStr, depth |-> depth]
  ELSE IF inStr
    THEN OpenAt(s, IF s[i] = 92 THEN i + 2 ELSE i + 1, s[i] # 34, depth)
  ELSE OpenAt(s, i + 1, s[i] = 34,
              IF s[i] \in {91, 123} THEN depth + 1
              ELSE IF s[i] \in {93, 125} THEN depth - 1 ELSE depth)

\* the stream is the start of a JSON text and ends inside a string, an
\* object or an array of it
Truncated ==
  /\ IsJSON(doc.txt)
  /\ input \in Prefixes(doc.txt)
  /\ \E o \in {OpenAt(input, 1, FALSE, 0)} : o.inStr \/ o.depth > 0

\* the stream ends after one, two or three bytes of the four that follow \u
PartialHex ==
  \E k \in 1..3 :
    /\ Len(input) >= k + 2
    /\ input[Len(input) - k - 1] = 92
    /\ input[Len(input) - k] = 117

\* the stream is empty or whitespace only
Blank == \A i \in 1..Len(input) : input[i] \in {32, 9, 13, 10}

MaxPieces == 3

\* control bytes, the bytes with an escape of their own, safe ASCII, the
\* UTF-8 encodings of U+00E9, U+20AC, U+1F600 and U+FFFD, and bytes that
\* are no UTF-8: a lone continuation, a lone lead, a lead with one of its
\* two continuations, 0xff, an overlong lead and an encoded surrogate
Pieces ==
  {<<1>>, <<31>>, <<10>>, <<13>>, <<9>>, <<32>>, <<34>>, <<92>>, <<97>>, <<127>>,
   <<195, 169>>, <<226, 130, 172>>, <<240, 159, 152, 128>>, <<239, 191, 189>>,
   <<128>>, <<195>>, <<226, 130>>, <<255>>, <<192>>, <<237, 160, 128>>}

RECURSIVE Strings(_)
\* the byte strings of up to n pieces
Strings(n) ==
  IF n = 0 THEN {<<>>} ELSE Strings(n - 1) \cup {s \o p : s \in Strings(n - 1), p \in Pieces}

NewWriter == [w |-> <<>>, comma |-> FALSE, inObject |-> FALSE, panic |-> NoPanic]

\* String is called with input
S_String ==
  /\ pstack # <<>>
  /\ PTop.k = "String"
  /\ jw' = String_(jw, input)
  /\ pstack' = <<PFrame("String returned", {})>>
  /\ UNCHANGED <<stack, ncalls, lastCall, closed, want, legal, gjw, lvars>>
  /\ UNCHANGED <<doc, input, pos, line, col, ret, calls, seen, covered, given>>

InitS ==
  /\ jw \in {NewWriter, Null(NewWriter)}
  /\ stack = <<Frame("main", FALSE)>>
  /\ ncalls = 0
  /\ lastCall = "NewWriter"
  /\ closed = FALSE
  /\ want = <<>>
  /\ legal = TRUE
  /\ gjw = NoGZip
  /\ NoPool
  /\ doc = Doc(<<>>, <<>>)
  /\ input \in Strings(MaxPieces)
  /\ pos = 0
  /\ line = 1
  /\ col = 1
  /\ pstack = <<PFrame("String", {})>>
  /\ ret = Nil
  /\ calls = <<>>
  /\ seen = 0
  /\ covered = TRUE
  /\ given = {}

NextS == S_String

SpecS == InitS /\ [][NextS]_vars

\* the well-formed UTF-8 byte sequences of more than one byte (RFC 3629,
\* section 4): the ranges of the first and second byte and the length
WellFormed ==
  {<<194, 223, 128, 191, 2>>,
   <<224, 224, 160, 191, 3>>, <<225, 236, 128, 191, 3>>, <<237, 237, 128, 159, 3>>,
   <<238, 239, 128, 191, 3>>,
   <<240, 240, 144, 191, 4>>, <<241, 243, 128, 191, 4>>, <<244, 244, 128, 143, 4>>}

\* the bytes of s from the i-th on begin with the sequence of row
Begins(s, i, row) ==
  /\ s[i] >= row[1] /\ s[i] <= row[2]
  /\ Len(s) >= i + row[5] - 1
  /\ s[i + 1] >= row[3] /\ s[i + 1] <= row[4]
  /\ \A k \in (i + 2)..(i + row[5] - 1) : s[k] >= 128 /\ s[k] <= 191

\* the length of the well-formed sequence s has at i, or 0
SequenceAt(s, i) ==
  IF \E row \in WellFormed : Begins(s, i, row)
    THEN (CHOOSE row \in WellFormed : Begins(s, i, row))[5]
    ELSE 0

\* the two lowercase hexadecimal digits of a byte
LowerHex(b) ==
  <<(IF (b \div 16) < 10 THEN 48 + (b \div 16) ELSE 87 + (b \div 16)),
    (IF (b % 16) < 10 THEN 48 + (b % 16) ELSE 87 + (b % 16))>>

\* what a JSON string holds for n bytes of s at i, n the length of the
\* well-formed sequence there
Escaped(s, i, n) ==
  IF s[i] = 34 \/ s[i] = 92 THEN <<92, s[i]>>
  ELSE IF s[i] = 10 THEN <<92, 110>>
  ELSE IF s[i] = 13 THEN <<92, 114>>
  ELSE IF s[i] = 9 THEN <<92, 116>>
  ELSE IF s[i] < 32 THEN <<92, 117, 48, 48>> \o LowerHex(s[i])
  ELSE IF s[i] < 128 THEN <<s[i]>>
  ELSE IF n > 0 THEN SubSeq(s, i, i + n - 1)
  ELSE <<92, 117, 102, 102, 102, 100>>

RECURSIVE EscapedFrom(_, _)
\* the escaping of s from its i-th byte on, position by position
EscapedFrom(s, i) ==
  IF i > Len(s) THEN <<>>
  ELSE Escaped(s, i, SequenceAt(s, i))
         \o EscapedFrom(s, IF s[i] >= 128 /\ SequenceAt(s, i) > 0 THEN i + SequenceAt(s, i) ELSE i + 1)

\* C16: String(s) writes a quote, then for each position of s in turn the
\* byte itself when it is safe ASCII, a backslash and the byte for a quote
\* or backslash, \n, \r or \t, \u00XX in lowercase hex for another byte
\* below 0x20, a well-formed multi-byte sequence as it is and the escape of U+FFFD for
\* each byte that is no UTF-8, then a quote: nothing dropped, doubled or
\* out of order.
C16_StringEscaping ==
  [][S_String =>
       jw'.w = jw.w \o (IF jw.comma THEN <<44>> ELSE <<>>)
                 \o <<34>> \o EscapedFrom(input, 1) \o <<34>>]_vars

\* String has written "a", the escape of 0x01 and the escape of U+FFFD
\* for the bytes a, 0x01 and 0xff
C16_Witness ==
  /\ pstack = <<PFrame("String returned", {})>>
  /\ input = <<97, 1, 255>>
  /\ jw.w = <<34, 97, 92, 117, 48, 48, 48, 49, 92, 117, 102, 102, 102, 100, 34>>

(***************************************************************************)
(* A value written by the Writer and then read by Parse.  A value is a     *)
(* tree [k, s, i, b, kids]: k its kind, s, i and b the string, int or bool *)
(* of a leaf, kids the elements of an array or the members of an object,   *)
(* each a [name, v].  The caller writes the tree with one Writer call per  *)
(* node, and Parse is given the bytes the Writer has written.              *)
(***************************************************************************)
Leaf(k, s, i, b) == [k |-> k, s |-> s, i |-> i, b |-> b, kids |-> <<>>]

Node(k, kids) == [k |-> k, s |-> <<>>, i |-> 0, b |-> FALSE, kids |-> kids]

Kid(name, v) == [name |-> name, v |-> v]

\* the four-character string of a quote, a backslash, a newline and 0x01
FourChars == <<34, 92, 10, 1>>

\* the leaves that stand anywhere in a value: null, true, -7 and FourChars
Leaves ==
  {Leaf("null", <<>>, 0, FALSE), Leaf("bool", <<>>, 0, TRUE), Leaf("int", <<>>, -7, FALSE),
   Leaf("string", FourChars, 0, FALSE)}

\* the leaves that stand at the top level only: false, 0, 123, "", "a",
\* U+00E9 and U+20AC in UTF-8, and 0x7f
TopLeaves ==
  {Leaf("bool", <<>>, 0, FALSE), Leaf("int", <<>>, 0, FALSE), Leaf("int", <<>>, 123, FALSE),
   Leaf("string", <<>>, 0, FALSE), Leaf("string", <<97>>, 0, FALSE),
   Leaf("string", <<195, 169, 226, 130, 172>>, 0, FALSE), Leaf("string", <<127>>, 0, FALSE)}

\* the names of members: a, and a quote
MemberNames == {<<97>>, <<34>>}

RECURSIVE TreesOf(_)
RECURSIVE KidLists(_, _)
\* the values of n nodes
TreesOf(n) ==
  IF n = 1 THEN Leaves \cup {Node("array", <<>>), Node("object", <<>>)}
  ELSE {Node("array", l) : l \in KidLists(n - 1, {<<>>})}
         \cup {Node("object", l) : l \in KidLists(n - 1, MemberNames)}

\* the non-empty lists of elements or members of n nodes, named from names
KidLists(n, names) ==
  {<<Kid(nm, v)>> : nm \in names, v \in TreesOf(n)}
    \cup UNION {{<<Kid(nm, v)>> \o l : nm \in names, v \in TreesOf(j), l \in KidLists(n - j, names)} :
                  j \in 1..(n - 1)}

\* the values the Writer is given: one node fewer than Docs allows
Trees == TopLeaves \cup UNION {TreesOf(n) : n \in 1..(MaxNodes - 1)}

\* the interface value Prop is given for a leaf
LeafValue(v) ==
  PropValue(CASE v.k = "null" -> "nil" [] v.k = "bool" -> "bool" [] v.k = "int" -> "int"
              [] OTHER -> "string",
            v.s, v.i, v.b, NaN)

RECURSIVE WriteValue(_, _)
RECURSIVE WriteKids(_, _, _, _)
\* the Writer calls of the caller for the value v
WriteValue(st, v) ==
  CASE v.k = "null" -> Null(st)
    [] v.k = "bool" -> Bool(st, v.b)
    [] v.k = "int" -> Int_(st, v.i)
    [] v.k = "string" -> String_(st, v.s)
    [] v.k = "array" -> ArrayExit(WriteKids(ArrayEnter(st), v.kids, 1, FALSE))
    [] v.k = "object" -> ObjectExit(WriteKids(ObjectEnter(st), v.kids, 1, TRUE), st.inObject)

\* the function given to Array or Object, from its j-th call on: a value
\* call for an element; for a member a Prop with the leaf, or with a
\* function that writes the array or object
WriteKids(st, kids, j, inObj) ==
  IF j > Len(kids) THEN st
  ELSE WriteKids(IF ~inObj THEN WriteValue(st, kids[j].v)
                 ELSE IF kids[j].v.k \in {"array", "object"}
                   THEN PropExit(WriteValue(PropEnter(st, kids[j].name), kids[j].v), TRUE)
                 ELSE Prop(st, kids[j].name, LeafValue(kids[j].v)),
                 kids, j + 1, inObj)

RECURSIVE Runes(_)
\* the runes of a UTF-8 string
Runes(s) ==
  IF s = <<>> THEN <<>>
  ELSE <<DecodeRuneInString(s).c>> \o Runes(Slice(s, DecodeRuneInString(s).size, Len(s)))

RECURSIVE Events(_)
RECURSIVE KidEvents(_, _)
\* the values and keys of v in document order
Events(v) ==
  CASE v.k = "null" -> <<Ev("null", <<>>)>>
    [] v.k = "bool" -> <<Ev("bool", IF v.b THEN <<1>> ELSE <<0>>)>>
    [] v.k = "int" -> <<Ev("int", <<v.i, 0>>)>>
    [] v.k = "string" -> <<Ev("string", Runes(v.s))>>
    [] OTHER -> <<Ev(v.k, <<>>)>> \o KidEvents(v.kids, 1)

KidEvents(kids, j) ==
  IF j > Len(kids) THEN <<>>
  ELSE (IF kids[j].name = <<>> THEN <<>> ELSE <<Ev("key", Runes(kids[j].name))>>)
         \o Events(kids[j].v) \o KidEvents(kids, j + 1)

\* the Writer has written a value, and Parse is called on its output
InitRT ==
  /\ \E v \in Trees :
       /\ jw = WriteValue(NewWriter, v)
       /\ doc = Doc(jw.w, Events(v))
  /\ stack = <<Frame("main", FALSE)>>
  /\ ncalls = 0
  /\ lastCall = "NewWriter"
  /\ closed = FALSE
  /\ want = <<>>
  /\ legal = TRUE
  /\ gjw = NoGZip
  /\ NoPool
  /\ input = doc.txt
  /\ pos = 0
  /\ line = 1
  /\ col = 1
  /\ \E h \in HandlerSets : pstack = <<PFrame("Parse", {}), PFrame("one", h)>>
  /\ ret = Nil
  /\ calls = <<>>
  /\ seen = 0
  /\ covered = TRUE
  /\ given = pstack[Len(pstack)].h

\* Parse on the output of the Writer: parseOne never stands at the end of
\* the stream or at a rune that starts no value (C17_RoundTrip)
NextRT ==
  \/ P_Object
  \/ P_Array
  \/ P_Number
  \/ P_Keyword
  \/ P_String
  \/ P_Key
  \/ P_KeyReturn
  \/ P_ObjectNext
  \/ P_ArrayNext
  \/ P_Trailing

SpecRT == InitRT /\ [][NextRT]_vars

AfterRaw == lastCall \in {"Raw", "RawByte"}

\* the step is a call that writes a value or a property
WritesNext ==
  /\ ncalls' = ncalls + 1
  /\ lastCall' \in {"Null", "String", "Int", "Bool", "Float64", "Object", "Array", "Prop"}
  /\ jw'.panic = NoPanic

\* C18: wherever it is called (top level, array, object, property value),
\* Raw appends its argument as it is and RawByte its byte, with nothing
\* before it and without a panic, and the call that writes a value or a
\* property next puts no comma after the raw output.
C18_Raw ==
  [][/\ (ncalls' = ncalls + 1 /\ lastCall' = "Raw") =>
          /\ \E s \in RawArgs : jw'.w = jw.w \o s
          /\ jw'.panic = NoPanic
     /\ (ncalls' = ncalls + 1 /\ lastCall' = "RawByte") =>
          /\ \E b \in RawByteArgs : jw'.w = jw.w \o <<b>>
          /\ jw'.panic = NoPanic
     /\ (AfterRaw /\ WritesNext) =>
          /\ Len(jw'.w) > Len(jw.w)
          /\ SubSeq(jw'.w, 1, Len(jw.w)) = jw.w
          /\ jw'.w[Len(jw.w) + 1] # 44]_vars

\* Raw has written a quote and a backslash in the body of an object after
\* a property, and the Prop called next has written its name right after
C18_Witness ==
  /\ lastCall = "Prop"
  /\ jw.panic = NoPanic
  /\ jw.w = <<123, 34, 97, 34, 58, 110, 117, 108, 108, 34, 92, 34, 97, 34, 58, 110, 117, 108, 108>>

(***************************************************************************)
(* Parse on streams that are no JSON text, next to streams that are: a     *)
(* malformed number, a trailing comma, an unquoted key, a comment.         *)
(***************************************************************************)
\* 01, 1. and -.5; [42,] and {"a":42,}; {a:42}; /**/42 and 42//
Malformed ==
  {Doc(<<48, 49>>, <<Ev("int", <<1, 0>>)>>),
   Doc(<<49, 46>>, <<Ev("float", <<1, 0>>)>>),
   Doc(<<45, 46, 53>>, <<Ev("float", <<-5, -1>>)>>),
   Doc(<<91, 52, 50, 44, 93>>, <<Ev("array", <<>>), Ev("int", <<42, 0>>)>>),
   Doc(<<123, 34, 97, 34, 58, 52, 50, 44, 125>>,
       <<Ev("object", <<>>), Ev("key", <<97>>), Ev("int", <<42, 0>>)>>),
   Doc(<<123, 97, 58, 52, 50, 125>>, <<Ev("object", <<>>)>>),
   Doc(<<47, 42, 42, 47, 52, 50>>, <<>>),
   Doc(<<52, 50, 47, 47>>, <<Ev("int", <<42, 0>>)>>)}

InitG ==
  /\ jw = NewWriter
  /\ stack = <<Frame("main", FALSE)>>
  /\ ncalls = 0
  /\ lastCall = "NewWriter"
  /\ closed = FALSE
  /\ want = <<>>
  /\ legal = TRUE
  /\ gjw = NoGZip
  /\ NoPool
  /\ doc \in DocsT \cup Malformed
  /\ input = doc.txt
  /\ pos = 0
  /\ line = 1
  /\ col = 1
  /\ \E h \in HandlerSets : pstack = <<PFrame("Parse", {}), PFrame("one", h)>>
  /\ ret = Nil
  /\ calls = <<>>
  /\ seen = 0
  /\ covered = TRUE
  /\ given = pstack[Len(pstack)].h

SpecG == InitG /\ [][NextP]_vars

\* C19: Parse returns nil only on a stream that is one JSON text of
\* RFC 8259, whatever callbacks are registered.
C19_StrictGrammar == (Returned /\ ret = Nil) => IsJSON(input)

(***************************************************************************)
(* gzipWriter.Close, statement by statement.  The JSON writer has written  *)
(* a value; its bufio.Writer has passed on some of the bytes to the        *)
(* gzip.Writer, which has written some of its stream to the bufio.Writer   *)
(* of the sink, which has written some of that to the sink.  The gzip      *)
(* stream is a header, the data and a trailer; deflate is not modelled.    *)
(***************************************************************************)
Header == -1

Trailer == -2

\* gzipWriter.Close with the sink flushed before the compressor is closed
CloseStepsSinkFirst ==
  <<"jw.w.Flush", "writerPool.Put", "bw.Flush", "bufferPool.Put", "gw.Close", "gzipPool.Put">>

\* the statements of gzipWriter.Close in their order, those of writer.Close
\* in the place of its call
CloseSteps ==
  <<"jw.w.Flush", "writerPool.Put", "gw.Close", "gzipPool.Put", "bw.Flush", "bufferPool.Put">>

\* the statement that runs next
AtStep(name) == gjw.pc \in 1..Len(CloseSteps) /\ CloseSteps[gjw.pc] = name

\* the statement has run
Stepped(g) ==
  /\ gjw' = [g EXCEPT !.pc = gjw.pc + 1]
  /\ UNCHANGED <<jw, stack, ncalls, lastCall, want, legal, dvars, lvars>>
  /\ closed' = TRUE

\* jw.w.Flush() of writer.Close: the bytes the writer still buffers go to
\* the gzip.Writer, which writes on as much of its stream as it likes
Z_WriterFlush ==
  /\ AtStep("jw.w.Flush")
  /\ \E out \in Prefixes(<<Header>> \o jw.w) :
       /\ Len(out) >= Len(gjw.gwOut)
       /\ Stepped([gjw EXCEPT !.gwIn = jw.w, !.gwOut = out])

\* writerPool.Put(jw) of writer.Close
Z_WriterPut ==
  /\ AtStep("writerPool.Put")
  /\ Stepped([gjw EXCEPT !.pools = @ \cup {"writer"}])

\* gjw.gw.Close(): the rest of the stream and the trailer are written
Z_GzipClose ==
  /\ AtStep("gw.Close")
  /\ Stepped([gjw EXCEPT !.gwOut = <<Header>> \o gjw.gwIn \o <<Trailer>>, !.gwClosed = TRUE])

\* gzipPool.Put(gjw.gw)
Z_GzipPut ==
  /\ AtStep("gzipPool.Put")
  /\ Stepped([gjw EXCEPT !.pools = @ \cup {"gw"}])

\* gjw.bw.Flush(): what the bufio.Writer of the sink holds goes to the sink
Z_BufFlush ==
  /\ AtStep("bw.Flush")
  /\ Stepped([gjw EXCEPT !.bwOut = gjw.gwOut])

\* bufferPool.Put(gjw.bw)
Z_BufPut ==
  /\ AtStep("bufferPool.Put")
  /\ Stepped([gjw EXCEPT !.pools = @ \cup {"bw"}])

\* NewGZipWriter, a value written, and Close called
InitZ ==
  /\ NoDecoder
  /\ \E v \in Leaves \cup TopLeaves : jw = WriteValue(NewWriter, v)
  /\ stack = <<Frame("main", FALSE)>>
  /\ ncalls = 1
  /\ lastCall = "Close"
  /\ closed = FALSE
  /\ want = jw.w
  /\ legal = TRUE
  /\ \E in \in Prefixes(jw.w) :
       \E out \in Prefixes(<<Header>> \o in) :
         \E snk \in Prefixes(out) : gjw = GZip(1, in, out, snk, FALSE, {})
  /\ NoPool

NextZ ==
  \/ Z_WriterFlush
  \/ Z_WriterPut
  \/ Z_GzipClose
  \/ Z_GzipPut
  \/ Z_BufFlush
  \/ Z_BufPut

SpecZ == InitZ /\ [][NextZ]_vars

\* the gzip stream of the bytes the writer has written
Stream == <<Header>> \o jw.w \o <<Trailer>>

\* C20: in gzipWriter.Close the gzip.Writer is closed only when it has been
\* given every byte of the JSON writer, the sink's bufio.Writer is flushed
\* only when the gzip.Writer is closed, so that the sink then holds the
\* whole stream; and the writer is put back only when its buffer is
\* flushed, the gzip.Writer only when it is closed, the bufio.Writer only
\* when it is flushed.
C20_CloseOrder ==
  /\ gjw.gwClosed => gjw.gwIn = jw.w
  /\ gjw.pc > 5 => gjw.gwClosed /\ gjw.bwOut = Stream
  /\ "writer" \in gjw.pools => gjw.gwIn = jw.w
  /\ "gw" \in gjw.pools => gjw.gwClosed /\ gjw.gwOut = Stream
  /\ "bw" \in gjw.pools => gjw.bwOut = Stream
  /\ gjw.pc = Len(CloseSteps) + 1 => gjw.pools = {"writer", "gw", "bw"}

\* Close has returned on a writer that had written -7: the sink holds the
\* whole stream, and the three resources are back in their pools
C20_Witness ==
  /\ gjw.pc = Len(CloseSteps) + 1
  /\ jw.w = <<45, 55>>
  /\ gjw.bwOut = <<Header, 45, 55, Trailer>>
  /\ gjw.pools = {"writer", "gw", "bw"}


(***************************************************************************)
(* C21. writerPool: NewWriter, writes and Close on several writers.        *)
(* A writer in use is [jw, sink, fresh]: the writer object with the        *)
(* io.Writer of its bufio.Writer (wr), the io.Writer that was passed to    *)
(* NewWriter, and what a newly allocated writer makes of the same calls.   *)
(***************************************************************************)
MaxUses == 6

MaxWriters == 2

\* bufio.Writer.Reset(w) on the bufio.Writer of a writer: buffered data is
\* dropped and the output goes to w
Reset(st, w) == [st EXCEPT !.w = <<>>, !.wr = w]

\* NewWriter with a writer from the pool, as it is put back: only Reset
RecycledAsIs(st, w) == Reset(st, w)

\* NewWriter with a writer from the pool
Recycled(st, w) == [Reset(st, w) EXCEPT !.comma = FALSE, !.inObject = FALSE]

\* NewWriter when writerPool.Get returns nil
Allocated(w) == NewWriter @@ [wr |-> w]

\* a panic of a method is recovered by the caller, the writer stays as it is
Recovered(st) == [st EXCEPT !.panic = NoPanic]

Methods == {"Null", "Object", "Array", "Prop", "Prop func"}

\* one call of a method of the Writer; a function it is given runs up to
\* its call of Close or to its panic
Written(st, method) ==
  Recovered(CASE method = "Null" -> Null(st)
              [] method = "Object" -> ObjectEnter(st)
              [] method = "Array" -> ArrayEnter(st)
              [] method = "Prop" -> Prop(st, <<97>>, PropValue("int", <<>>, -12, FALSE, NaN))
              [] method = "Prop func" -> PropEnter(st, <<97>>))

\* got is what writerPool.Get returned: <<>> for nil, or one writer
Use(st, w, fresh, got) == [jw |-> st, sink |-> w, fresh |-> fresh, got |-> got]

Without(s, i) == SubSeq(s, 1, i - 1) \o SubSeq(s, i + 1, Len(s))

CanUse == ncalls < MaxUses

Used ==
  /\ ncalls' = ncalls + 1
  /\ UNCHANGED <<jw, stack, lastCall, closed, want, legal, gjw, dvars>>

\* NewWriter(w), writerPool.Get returning a pooled writer
L_NewWriterPooled ==
  /\ CanUse
  /\ Len(writers) < MaxWriters
  /\ \E w \in Sinks, i \in DOMAIN writerPool :
       /\ writers' = Append(writers, Use(Recycled(writerPool[i], w), w, Allocated(w), <<writerPool[i]>>))
       /\ writerPool' = Without(writerPool, i)
  /\ UNCHANGED sinks
  /\ Used

\* NewWriter(w), writerPool.Get returning nil: the pool is empty or has
\* dropped what it held
L_NewWriterNil ==
  /\ CanUse
  /\ Len(writers) < MaxWriters
  /\ \E w \in Sinks : writers' = Append(writers, Use(Allocated(w), w, Allocated(w), <<>>))
  /\ UNCHANGED <<writerPool, sinks>>
  /\ Used

\* a method of a writer in use is called
L_Write ==
  /\ CanUse
  /\ \E i \in DOMAIN writers, method \in Methods :
       writers' = [writers EXCEPT ![i] = Use(Written(writers[i].jw, method), writers[i].sink,
                                             Written(writers[i].fresh, method), writers[i].got)]
  /\ UNCHANGED <<writerPool, sinks>>
  /\ Used

\* bufio.Writer.Flush: the buffered bytes go to the io.Writer, or the
\* io.Writer fails and they stay
Flush(st, ok) == IF ok THEN [st EXCEPT !.w = <<>>] ELSE st

\* Close of a writer in use: jw.w.Flush(), writerPool.Put(jw)
L_Close ==
  /\ CanUse
  /\ \E i \in DOMAIN writers, ok \in BOOLEAN :
       /\ sinks' = IF ok THEN [sinks EXCEPT ![writers[i].jw.wr] = @ \o writers[i].jw.w]
                   ELSE sinks
       /\ writerPool' = Append(writerPool, Flush(writers[i].jw, ok))
       /\ writers' = Without(writers, i)
  /\ Used

NextL ==
  \/ L_NewWriterPooled
  \/ L_NewWriterNil
  \/ L_Write
  \/ L_Close

SpecL == InitW /\ [][NextL]_vars

\* the writer that the step closes, as a set
Closing == {i \in DOMAIN writers : Len(writers') < Len(writers) /\ writers' = Without(writers, i)}

\* the writer w behaves as a newly allocated one
AsNew(w) ==
  /\ w.jw.comma = w.fresh.comma
  /\ w.jw.inObject = w.fresh.inObject
  /\ w.jw.w = w.fresh.w
  /\ w.jw.wr = w.sink

\* C21: after every call, every writer in use is in the state, and holds
\* the bytes, that a newly allocated writer has after the same calls, and
\* its bufio.Writer writes to the io.Writer that was passed to NewWriter,
\* whatever writerPool.Get returned; an io.Writer receives bytes only when
\* a writer made for it is closed, and then the bytes that a newly
\* allocated writer holds after the same calls.
C21_PooledWriterReset ==
  [][/\ \A i \in DOMAIN writers' : AsNew(writers'[i])
     /\ \A w \in Sinks :
          sinks'[w] # sinks[w] =>
            \E i \in Closing : writers[i].sink = w /\ sinks'[w] = sinks[w] \o writers[i].fresh.w]_vars

\* a writer that was closed inside an object body, its io.Writer failing
\* and its buffer still holding the brace, was taken from the pool for
\* another io.Writer and has written a value
C21_Witness ==
  \E i \in DOMAIN writers :
    /\ writers[i].got # <<>>
    /\ writers[i].got[1].inObject
    /\ writers[i].got[1].w = <<123>>
    /\ writers[i].got[1].wr = "w1"
    /\ writers[i].sink = "w2"
    /\ writers[i].jw.w = <<110, 117, 108, 108>>


(***************************************************************************)
(* C22. The Array callback, in both decoders.                              *)
(***************************************************************************)
\* parseOne is about to read the '[' of an array
AtArray == AtValue /\ (IF IsParse THEN First.c = 91 ELSE RFirst.r = 91)

\* parseArray or a callback has the next step
InArray == pstack # <<>> /\ PTop.k = "array"

\* the step invokes the callbacks cbs, and no other
Invokes(cbs) == calls' = calls \o cbs

\* the step calls parseOne for an element with the handler set h, the
\* parseArray waiting with the same set
ElementWith(h) ==
  /\ Len(pstack') = Len(pstack) + 1
  /\ pstack'[Len(pstack)] = PFrame("array", h)
  /\ pstack'[Len(pstack) + 1] = PFrame("one", h)

\* the step of parseArray for an array whose handler set registers the
\* Array callback, as far as registered says
ArrayStep(registered) ==
  /\ (AtArray /\ registered) =>
       /\ Invokes(<<Cb("Array", <<>>)>>)
       /\ Len(pstack') < Len(pstack) \/ ElementWith(given')
  /\ InArray =>
       /\ Invokes(<<>>)
       /\ Len(pstack') < Len(pstack) \/ ElementWith(PTop.h)
  /\ (Len(calls') > Len(calls) /\ calls'[Len(calls')].cb = "Array") => AtArray

ReaderNumberDone ==
  pstack # <<>> /\ PTop.k = "Reader.parseNumber returned" /\ "Ignore" \notin PTop.h

\* the Reader holds the error msg and no callback was invoked
RaisedOnly(msg) == ret.msg = msg /\ calls = <<>>

\* C23: for a number token and a handler set of the Reader with Ignore
\* unset, Reader.parseNumber raises "JSON number is not an integer" when Int
\* is registered, Float is not, and the token converts to no integer; it
\* raises "invalid JSON number" when Float is registered, the token was
\* not given to Int, and the token converts to no float; it raises
\* "unexpected number in JSON" when neither is registered; and in these
\* three cases it invokes no callback.
C23_ReaderNumberErrors ==
  ReaderNumberDone =>
    /\ ("Int" \in PTop.h /\ "Float" \notin PTop.h /\ ~AtoiOK(doc.txt))
         => RaisedOnly("JSON number is not an integer")
    /\ ("Float" \in PTop.h /\ ~("Int" \in PTop.h /\ AtoiOK(doc.txt)) /\ ~ParseFloatOK(doc.txt))
         => RaisedOnly("invalid JSON number")
    /\ ("Int" \notin PTop.h /\ "Float" \notin PTop.h) => RaisedOnly("unexpected number in JSON")

\* Reader.parseNumber has read 42.5 before a comma with only Int
\* registered, and holds "JSON number is not an integer" at the comma
C23_Witness ==
  /\ ReaderNumberDone
  /\ PTop.h = {"Int"}
  /\ input = <<52, 50, 46, 53, 44>>
  /\ pos = 4
  /\ ret = Err("JSON number is not an integer", <<1, 5>>)
  /\ calls = <<>>


(***************************************************************************)
(* C24. parseString and Reader.parseString on what follows the opening     *)
(* quote of a string.                                                      *)
(***************************************************************************)
\* a plain string, the escapes \n and A, the control characters 0x01,
\* 0x0a and 0x00, the escape \x, and \u followed by 00g1, +041, -041,
\* a blank and 041, 12 and the end of the stream, and the end of the stream
StringBodies ==
  {<<97, 34>>, <<92, 110, 34>>, <<92, 117, 48, 48, 52, 49, 34>>,
   <<97, 1, 34>>, <<10, 34>>, <<97, 0, 34>>, <<92, 120, 34>>,
   <<92, 117, 48, 48, 103, 49, 34>>, <<92, 117, 43, 48, 52, 49, 34>>,
   <<92, 117, 45, 48, 52, 49, 34>>, <<92, 117, 32, 48, 52, 49, 34>>,
   <<92, 117, 49, 50>>, <<92, 117>>}

\* parseString is called, the opening quote read
X_Parse ==
  /\ pstack # <<>>
  /\ PTop.k = "parseString"
  /\ \E r \in {ParseStringP(input, pos, PTop.h)}, e \in CallbackErrors :
       /\ pos' = r.pos
       /\ ret' = IF r.cb = "" THEN r.err ELSE e
       /\ calls' = IF r.cb = "" THEN calls ELSE Append(calls, Cb(r.cb, r.arg))
  /\ pstack' = <<PFrame("parseString returned", PTop.h)>>
  /\ UNCHANGED <<doc, input, line, col, seen, covered, given, wvars>>

\* Reader.parseString is called, the opening quote read
X_Reader ==
  /\ pstack # <<>>
  /\ PTop.k = "Reader.parseString"
  /\ \E x \in {ParseStringR(input, Rd, PTop.h)}, raises \in BOOLEAN :
       /\ RSet(IF x.cb # "" /\ raises THEN Raise(x.rd, "callback failed") ELSE x.rd)
       /\ calls' = IF x.cb = "" THEN calls ELSE Append(calls, Cb(x.cb, x.arg))
  /\ pstack' = <<PFrame("Reader.parseString returned", PTop.h)>>
  /\ UNCHANGED <<doc, input, seen, covered, given, wvars>>

InitX ==
  /\ jw = [w |-> <<>>, comma |-> FALSE, inObject |-> FALSE, panic |-> NoPanic]
  /\ stack = <<Frame("main", FALSE)>>
  /\ ncalls = 0
  /\ lastCall = "NewWriter"
  /\ closed = FALSE
  /\ want = <<>>
  /\ legal = TRUE
  /\ gjw = NoGZip
  /\ NoPool
  /\ doc = Doc(<<>>, <<>>)
  /\ input \in StringBodies
  /\ pos = 0
  /\ line = 1
  /\ col = 2
  /\ \/ \E h \in {{"String"}, {"Time", "String"}, {"Time"}, {}} :
          pstack = <<PFrame("parseString", h)>>
     \/ \E h \in {{"String"}, {"Time", "String"}, {"Time"}, {}, {"Ignore"}} :
          pstack = <<PFrame("Reader.parseString", h)>>
  /\ ret = Nil
  /\ calls = <<>>
  /\ seen = 0
  /\ covered = TRUE
  /\ given = {}

NextX ==
  \/ X_Parse
  \/ X_Reader

SpecX == InitX /\ [][NextX]_vars

\* the four characters after \u at s[i] are hexadecimal digits
FourHex(s, i) == i + 4 <= Len(s) /\ \A k \in 1..4 : IsHexDigit(s[i + k])

RECURSIVE LexicalError(_, _)
\* the first lexical error of the string body s from s[i] on, as the rules
\* of strings name it: "" when the closing quote is reached without one,
\* EOF when the stream ends between two characters or right after \u
LexicalError(s, i) ==
  IF i > Len(s) THEN EOF
  ELSE IF s[i] = 34 THEN ""
  ELSE IF s[i] < 32 THEN "unexpected control character in JSON string"
  ELSE IF s[i] # 92 THEN LexicalError(s, i + 1)
  ELSE IF i + 1 > Len(s) THEN EOF
  ELSE IF s[i + 1] \in {34, 92, 47, 98, 102, 110, 114, 116} THEN LexicalError(s, i + 2)
  ELSE IF s[i + 1] # 117 THEN "unexpected escape sequence in JSON string"
  ELSE IF i + 1 = Len(s) THEN EOF
  ELSE IF FourHex(s, i + 1) THEN LexicalError(s, i + 6)
  ELSE "invalid Unicode escape in JSON string"

StringDone ==
  pstack # <<>> /\ PTop.k \in {"parseString returned", "Reader.parseString returned"}

\* C24: in both decoders, a string with a rune below 0x20 fails with
\* "unexpected control character in JSON string", one with a backslash
\* before a character other than " \ / b f n r t u fails with "unexpected
\* escape sequence in JSON string", one with \u before anything but four
\* hexadecimal digits fails with "invalid Unicode escape in JSON string",
\* and in each of these failures no callback is invoked.
C24_StringLexicalErrors ==
  (StringDone /\ LexicalError(input, 1) \notin {"", EOF}) =>
    /\ ret.msg = LexicalError(input, 1)
    /\ calls = <<>>


(***************************************************************************)
(* C25. comma and inObject at the returns of Object, Array and Prop.       *)
(***************************************************************************)
\* the step is the normal return of the call of fn whose function ran
Returns(fn) == Top.fn = fn /\ stack' = Pop /\ jw'.panic = NoPanic

\* the step is a call of Prop with a plain value that returns normally
PropReturns == lastCall' = "Prop" /\ stack' = Counted /\ jw'.panic = NoPanic

\* the function of a call of fn is running
Inside(fn) == ~closed /\ jw.panic = NoPanic /\ Top.fn = fn

\* C25: when Object or Array returns normally inObject has the value it had
\* when the call was entered (unset, as a call entered with inObject set
\* panics; for Object the value saved in saveInObject) and comma is set;
\* when Prop returns normally, with a plain value or with a function,
\* inObject and comma are set; while the value function of a Prop runs
\* inObject is unset, and while the function of an Object runs, between
\* its Prop calls, inObject is set.
C25_StateRestored ==
  [][/\ Returns("Object") => jw'.comma /\ jw'.inObject = Top.saveInObject /\ ~jw'.inObject
     /\ Returns("Array") => jw'.comma /\ ~jw'.inObject
     /\ (Returns("Prop") \/ PropReturns) => jw'.comma /\ jw'.inObject
     /\ Inside("Prop")' => ~jw'.inObject
     /\ Inside("Object")' => jw'.inObject]_vars

\* in the value function of a Prop an Object has returned: inObject is
\* unset again and comma is set
C25_Witness ==
  /\ Inside("Prop")
  /\ lastCall = "return"
  /\ jw.w = <<123, 34, 97, 34, 58, 123, 125>>
  /\ jw.comma
  /\ ~jw.inObject


(***************************************************************************)
(* C26. The position (line, col) of the Reader.                            *)
(***************************************************************************)
MaxRunes == 3

MaxLine == 5

\* the number of LF among the first p bytes of s
Newlines(s, p) == Cardinality({k \in 1..p : s[k] = 10})

\* the index of the last LF among the first p bytes of s, or 0
LastNewline(s, p) ==
  IF Newlines(s, p) = 0 THEN 0
  ELSE CHOOSE k \in 1..p : s[k] = 10 /\ \A j \in (k + 1)..p : s[j] # 10

\* the number of runes that begin after the last LF among the first p
\* bytes of s
RunesInLine(s, p) ==
  Cardinality({k \in (LastNewline(s, p) + 1)..p : ~IsCont(s, k, 128, 191)})

RECURSIVE Lines(_)
\* the streams: up to n runes out of a, LF and U+00E9
Lines(n) ==
  IF n = 0 THEN {<<>>}
  ELSE {<<>>} \cup {<<97>> \o s : s \in Lines(n - 1)} \cup {<<10>> \o s : s \in Lines(n - 1)}
         \cup {<<195, 169>> \o s : s \in Lines(n - 1)}

\* the method of the Reader that ran last
Ran(method) == pstack' = <<PFrame(method, {})>>

\* the size of the rune of s that ends at byte p
LastSize(s, p) == IF IsCont(s, p, 128, 191) THEN 2 ELSE 1

\* h.readRune(allowEOF)
Q_readRune ==
  /\ ret = Nil
  /\ line < MaxLine
  /\ \E allowEOF \in BOOLEAN : RSet(readRune(input, Rd, allowEOF))
  /\ Ran(IF pos' > pos THEN "readRune" ELSE "readRune at EOF")
  /\ UNCHANGED <<doc, input, calls, seen, covered, given, wvars>>

\* h.unreadRune(), which the methods of the Reader call only on the rune
\* that the readRune before it returned
Q_unreadRune ==
  /\ ret = Nil
  /\ PTop.k = "readRune"
  /\ RSet(unreadRune([Rd EXCEPT !.last = LastSize(input, pos)]))
  /\ Ran("unreadRune")
  /\ UNCHANGED <<doc, input, calls, seen, covered, given, wvars>>

\* h.Raise(err)
Q_Raise ==
  /\ ret = Nil
  /\ RSet(Raise(Rd, "syntax error in JSON"))
  /\ Ran("Raise")
  /\ UNCHANGED <<doc, input, calls, seen, covered, given, wvars>>

\* NewReader on a stream
InitQ ==
  /\ jw = [w |-> <<>>, comma |-> FALSE, inObject |-> FALSE, panic |-> NoPanic]
  /\ stack = <<Frame("main", FALSE)>>
  /\ ncalls = 0
  /\ lastCall = "NewWriter"
  /\ closed = FALSE
  /\ want = <<>>
  /\ legal = TRUE
  /\ gjw = NoGZip
  /\ NoPool
  /\ doc = Doc(<<>>, <<>>)
  /\ input \in Lines(MaxRunes)
  /\ pos = 0
  /\ line = 1
  /\ col = 1
  /\ pstack = <<PFrame("NewReader", {})>>
  /\ ret = Nil
  /\ calls = <<>>
  /\ seen = 0
  /\ covered = TRUE
  /\ given = {}

NextQ ==
  \/ Q_readRune
  \/ Q_unreadRune
  \/ Q_Raise

SpecQ == InitQ /\ [][NextQ]_vars

\* C26: in every state of a Reader line >= 1 and col >= 1, line is 1 plus
\* the number of LF consumed and not pushed back, col is 1 plus the number
\* of runes consumed since the last of them, and the position that Raise
\* puts into the error is that position.
C26_ReaderPosition ==
  /\ line >= 1
  /\ col >= 1
  /\ line = 1 + Newlines(input, pos)
  /\ col = 1 + RunesInLine(input, pos)
  /\ ret.msg = "syntax error in JSON" => ret.arg = <<1 + Newlines(input, pos), 1 + RunesInLine(input, pos)>>


(***************************************************************************)
(* C27. The test of Prop after its value function.                         *)
(***************************************************************************)
\* the value function of the innermost Prop returns
PropFuncReturns == Top.fn = "Prop" /\ stack' = Pop

\* the value function has written no byte: the output ends with the colon
\* that Prop wrote (no argument of the caller ends with a colon)
WroteNothing == jw.w[Len(jw.w)] = colon

\* C27: Prop with a function value panics with "Prop value function did
\* not write anything" only if the function wrote no bytes, and when the
\* function ends with a call of Raw or RawByte, Prop returns normally.
C27_PropValueWritten ==
  [][PropFuncReturns =>
       /\ jw'.panic = "Prop value function did not write anything" => WroteNothing
       /\ AfterRaw => jw'.panic = NoPanic]_vars


(***************************************************************************)
(* C28. Parse terminates: on the documents, on each of their prefixes and  *)
(* on the malformed streams, the callbacks returning at once.              *)
(***************************************************************************)
InitF == InitT \/ InitG

\* Parse is sequential code and its callbacks return: as long as it has not
\* returned, it takes its next step (every state in which it has not
\* returned has one)
SpecF == InitF /\ [][NextP]_vars /\ ([]<>Returned \/ []<><<NextP>>_vars)

RECURSIVE Nesting(_, _, _, _, _, _)
\* the deepest nesting of brackets among the first p bytes of s, strings
\* left out: s[i] is inside a string (inStr) at the nesting depth, and most
\* is the deepest nesting before it
Nesting(s, p, i, inStr, depth, most) ==
  IF i > p THEN most
  ELSE IF inStr
    THEN Nesting(s, p, IF s[i] = 92 THEN i + 2 ELSE i + 1, s[i] # 34, depth, most)
  ELSE IF s[i] \in {91, 123}
    THEN Nesting(s, p, i + 1, FALSE, depth + 1, IF depth + 1 > most THEN depth + 1 ELSE most)
  ELSE IF s[i] \in {93, 125} THEN Nesting(s, p, i + 1, FALSE, depth - 1, most)
  ELSE Nesting(s, p, i + 1, s[i] = 34, depth, most)

\* the calls of parseObject and parseArray that have not returned
Active == Cardinality({i \in DOMAIN pstack : pstack[i].k \in {"object", "array"}})

\* the step reads at least one rune more than it pushes back, or a call
\* returns
Progress == pos' > pos \/ Len(pstack') < Len(pstack)

\* C28: Parse returns on every stream; every step of it (a round of the
\* loop of parseObject or parseArray, a parseOne with the loops of
\* skipWhitespace and of the primitive it reads) consumes at least one
\* rune net of pushback or returns; and the calls of parseObject and
\* parseArray that are active at a time are never more than the nesting of
\* brackets in the stream consumed so far.
C28_Termination ==
  /\ <>Returned
  /\ [][Progress]_vars
  /\ [](Active <= Nesting(input, pos, 1, FALSE, 0, 0))

\* Parse has returned nil on a document with an array in an array, read to
\* its end
C28_Witness ==
  /\ Returned
  /\ ret = Nil
  /\ pos = Len(input)
  /\ Nesting(input, pos, 1, FALSE, 0, 0) = 2

=============================================================================
